---- MODULE Spec2Model ----
(***************************************************************************)
(* Tool registration, filtering, endpoint selection and dispatch of the    *)
(* OpenSearch MCP server (src/src/tools, src/src/mcp_server_opensearch).   *)
(*                                                                         *)
(* Python strings are modelled as sequences of one-character strings, so   *)
(* that lower(), strip(), join(), substring tests and regular-expression   *)
(* matching are computed character by character.                           *)
(***************************************************************************)
EXTENDS Integers, Sequences, FiniteSets, TLC

VARIABLES
    pc,             \* position of the server start-up / of the scenario
    TOOL_REGISTRY,  \* tools.TOOL_REGISTRY: the process-wide dict, in insertion order
    generated,      \* the keys generate_tools_from_openapi inserted
    spec_docs,      \* what fetch_github_spec yielded for each of SPEC_FILES
    mode,           \* get_tools(mode=...)
    config,         \* get_tools(config=...): the policy file behind the path
    env,            \* the OPENSEARCH_* environment read by get_tools
    serverless,     \* is_serverless(baseToolArgs())
    version,        \* get_opensearch_version(baseToolArgs())
    registry0,      \* TOOL_REGISTRY as get_tools found it
    after_write,    \* current_tool_names: the keys left by the write-gating step
    from_regex,     \* disabled_tools_from_regex
    write_step,     \* "not_reached" | "skipped" | "applied"
    filter_raised,  \* process_tool_filter ended in its except branch
    compat_calls,   \* number of is_tool_compatible calls made by get_tools
    backend_calls,  \* number of get_opensearch_version calls made by get_tools
    warnings,       \* logging.warning records of the filter
    enabled,        \* the dict get_tools returned
    call,           \* one call_tool request and what became of it
    sel,            \* one select_endpoint call and its result
    vc,             \* one is_tool_compatible call and its result
    cfg             \* one apply_custom_tool_config call and its result

varsFilter ==
    <<TOOL_REGISTRY, generated, spec_docs, mode, config, env, serverless, version, registry0,
      after_write, from_regex, write_step, filter_raised, compat_calls, backend_calls,
      warnings, enabled>>

vars == <<pc, varsFilter, call, sel, vc, cfg>>

(***************************************************************************)
(* Characters and strings                                                  *)
(***************************************************************************)

UpperChars ==
    <<"A","B","C","D","E","F","G","H","I","J","K","L","M",
      "N","O","P","Q","R","S","T","U","V","W","X","Y","Z">>

LowerChars ==
    <<"a","b","c","d","e","f","g","h","i","j","k","l","m",
      "n","o","p","q","r","s","t","u","v","w","x","y","z">>

\* The characters of the model in code-point order (str comparison, sorted()).
Ascii ==
    <<" ", "(", "*", ",", ".">> \o UpperChars \o <<"_">> \o LowerChars \o <<"{", "}">>

IndexOf(c, s) == CHOOSE i \in 1..Len(s) : s[i] = c

Has(c, s) == \E i \in 1..Len(s) : s[i] = c

\* The letters' other case, as tables
LowerTable == [c \in {UpperChars[i] : i \in 1..26} |-> LowerChars[IndexOf(c, UpperChars)]]

UpperTable == [c \in {LowerChars[i] : i \in 1..26} |-> UpperChars[IndexOf(c, LowerChars)]]

\* str.lower() / str.upper(), one character
lower_char(c) == IF c \in DOMAIN LowerTable THEN LowerTable[c] ELSE c

upper_char(c) == IF c \in DOMAIN UpperTable THEN UpperTable[c] ELSE c

lower(s) == [i \in 1..Len(s) |-> lower_char(s[i])]

upper(s) == [i \in 1..Len(s) |-> upper_char(s[i])]

\* str.title() of one alphabetic word: first letter upper case, the rest lower case
title(s) == [i \in 1..Len(s) |-> IF i = 1 THEN upper_char(s[i]) ELSE lower_char(s[i])]

\* needle in hay, for two strings
Contains(needle, hay) ==
    \E i \in 1..(Len(hay) - Len(needle) + 1) : SubSeq(hay, i, i + Len(needle) - 1) = needle

\* str < str
RECURSIVE StrLess(_, _)
StrLess(a, b) ==
    IF b = <<>> THEN FALSE
    ELSE IF a = <<>> THEN TRUE
    ELSE IF Head(a) = Head(b) THEN StrLess(Tail(a), Tail(b))
    ELSE IndexOf(Head(a), Ascii) < IndexOf(Head(b), Ascii)

\* sorted(S) for a set of strings
RECURSIVE sorted(_)
sorted(S) ==
    IF S = {} THEN <<>>
    ELSE LET m == CHOOSE x \in S : \A y \in S \ {x} : StrLess(x, y)
         IN  <<m>> \o sorted(S \ {m})

\* sep.join(parts)
RECURSIVE join(_, _)
join(sep, parts) ==
    IF parts = <<>> THEN <<>>
    ELSE IF Len(parts) = 1 THEN parts[1]
    ELSE parts[1] \o sep \o join(sep, Tail(parts))

\* ''.join(parts)
RECURSIVE concat(_)
concat(parts) == IF parts = <<>> THEN <<>> ELSE Head(parts) \o concat(Tail(parts))

\* str.strip()
RECURSIVE lstrip(_)
lstrip(s) == IF s # <<>> /\ Head(s) = " " THEN lstrip(Tail(s)) ELSE s

RECURSIVE rstrip(_)
rstrip(s) == IF s # <<>> /\ s[Len(s)] = " " THEN rstrip(SubSeq(s, 1, Len(s) - 1)) ELSE s

strip(s) == rstrip(lstrip(s))

\* str.replace('_', '')
remove_underscores(s) == SelectSeq(s, LAMBDA c : c # "_")

Range(s) == {s[i] : i \in 1..Len(s)}

(***************************************************************************)
(* Versions (semver.Version)                                               *)
(*                                                                         *)
(* A version string is the sequence of its dot-separated components; a     *)
(* component that is not a number is -1.  <<>> stands for a key that is    *)
(* absent from the tool's dict.                                            *)
(***************************************************************************)

Absent == <<>>

\* Version.parse(text, optional_minor_and_patch=True) accepts the text
parses(text) == Len(text) \in 1..3 /\ \A i \in 1..Len(text) : text[i] >= 0

\* Version.parse(text, optional_minor_and_patch=True): missing minor and patch are 0
parse(text) == [i \in 1..3 |-> IF i <= Len(text) THEN text[i] ELSE 0]

\* Version.__le__: (major, minor, patch) order
version_le(a, b) ==
    \/ a[1] < b[1]
    \/ a[1] = b[1] /\ a[2] < b[2]
    \/ a[1] = b[1] /\ a[2] = b[2] /\ a[3] <= b[3]

\* tool_info.get('min_version', '0.0.0')
min_version_of(tool_info) ==
    IF tool_info.min_version = Absent THEN <<0, 0, 0>> ELSE tool_info.min_version

\* tool_info.get('max_version', '99.99.99')
max_version_of(tool_info) ==
    IF tool_info.max_version = Absent THEN <<99, 99, 99>> ELSE tool_info.max_version

\* A containment that leaves the upper bound out
in_range_exclusive_max(lo, v, hi) == version_le(lo, v) /\ version_le(v, hi) /\ v # hi

\* min_tool_version <= current_version <= max_tool_version
in_range(lo, v, hi) == version_le(lo, v) /\ version_le(v, hi)

\* is_tool_compatible(current_version, tool_info): both bounds are parsed first (a
\* bound that does not parse raises ValueError), then the containment is returned.
is_tool_compatible(current_version, tool_info) ==
    LET lo == min_version_of(tool_info)
        hi == max_version_of(tool_info)
    IN  IF ~parses(lo) \/ ~parses(hi)
        THEN [raised |-> TRUE, value |-> FALSE]
        ELSE [raised |-> FALSE, value |-> in_range(parse(lo), current_version, parse(hi))]

(***************************************************************************)
(* Regular expressions (re.match with re.IGNORECASE)                       *)
(*                                                                         *)
(* A pattern is a string over literal characters, "." "*" written as the   *)
(* one token "*" (any run of characters), and "(" which, never closed,     *)
(* makes re.compile raise re.error.                                        *)
(***************************************************************************)

compiles(regex) == ~Has("(", regex)

\* Whether regex matches s from its start, ignoring case: all of s when whole,
\* else some prefix of s
RECURSIVE matches(_, _, _)
matches(regex, s, whole) ==
    IF regex = <<>> THEN ~whole \/ s = <<>>
    ELSE IF Head(regex) = "*"
         THEN \E k \in 0..Len(s) : matches(Tail(regex), SubSeq(s, k + 1, Len(s)), whole)
         ELSE /\ s # <<>>
              /\ lower_char(Head(regex)) = lower_char(Head(s))
              /\ matches(Tail(regex), Tail(s), whole)

\* re.fullmatch(regex, s, re.IGNORECASE) is not None
re_fullmatch(regex, s) == matches(regex, s, TRUE)

\* re.match(regex, s, re.IGNORECASE) is not None: the pattern is anchored at the
\* start of s only
re_match(regex, s) == matches(regex, s, FALSE)

(***************************************************************************)
(* The static registry (tools.py) and the generated tools                  *)
(***************************************************************************)

GET == <<"G","E","T">>

ListIndexTool == <<"L","i","s","t","I","n","d","e","x","T","o","o","l">>

IndexMappingTool == <<"I","n","d","e","x","M","a","p","p","i","n","g","T","o","o","l">>

SearchIndexTool == <<"S","e","a","r","c","h","I","n","d","e","x","T","o","o","l">>

AggregationTool == <<"A","g","g","r","e","g","a","t","i","o","n","T","o","o","l">>

GetShardsTool == <<"G","e","t","S","h","a","r","d","s","T","o","o","l">>

\* baseToolArgs.model_fields.keys()
opensearch_cluster_name == <<"o","p","e","n","s","e","a","r","c","h","_","c","l","u","s","t","e","r","_","n","a","m","e">>

base_fields == {opensearch_cluster_name}

\* A JSON schema of tool arguments: 'properties' by the names of its entries,
\* 'required' left out when nothing is required (as pydantic and
\* generate_tool_from_group leave it out)
Schema(name, properties, required) ==
    IF required = {}
    THEN [type |-> "object", title |-> name, properties |-> properties]
    ELSE [type |-> "object", title |-> name, properties |-> properties,
          required |-> required]

\* A tool of the registry: its key and the fields of its dict the filter reads.
Tool(id, http_methods, min_version, max_version, input_schema) ==
    [id |-> id, http_methods |-> http_methods,
     min_version |-> min_version, max_version |-> max_version,
     input_schema |-> input_schema]

\* tools.TOOL_REGISTRY as the module defines it
StaticRegistry ==
    << Tool(ListIndexTool, GET, <<1, 0, 0>>, Absent,
            Schema(<<"L","i","s","t","I","n","d","i","c","e","s","A","r","g","s">>, {opensearch_cluster_name}, {})),
       Tool(IndexMappingTool, GET, Absent, Absent,
            Schema(<<"G","e","t","I","n","d","e","x","M","a","p","p","i","n","g","A","r","g","s">>, {opensearch_cluster_name, <<"i","n","d","e","x">>}, {<<"i","n","d","e","x">>})),
       Tool(SearchIndexTool, <<"G","E","T",","," ","P","O","S","T">>, Absent, Absent,
            Schema(<<"S","e","a","r","c","h","I","n","d","e","x","A","r","g","s">>, {opensearch_cluster_name, <<"i","n","d","e","x">>, <<"q","u","e","r","y">>}, {<<"i","n","d","e","x">>, <<"q","u","e","r","y">>})),
       Tool(AggregationTool, <<"G","E","T",","," ","P","O","S","T">>, Absent, Absent,
            Schema(<<"A","g","g","r","e","g","a","t","i","o","n","A","r","g","s">>, {opensearch_cluster_name, <<"i","n","d","e","x">>, <<"a","g","g","s">>, <<"q","u","e","r","y">>}, {<<"i","n","d","e","x">>, <<"a","g","g","s">>})),
       Tool(GetShardsTool, GET, Absent, Absent,
            Schema(<<"G","e","t","S","h","a","r","d","s","A","r","g","s">>, {opensearch_cluster_name, <<"i","n","d","e","x">>}, {<<"i","n","d","e","x">>})) >>

\* dict helpers on a registry kept as a sequence of tools in insertion order
keys(registry) == [i \in 1..Len(registry) |-> registry[i].id]

has_key(registry, id) == \E i \in 1..Len(registry) : registry[i].id = id

lookup(registry, id) == registry[CHOOSE i \in 1..Len(registry) : registry[i].id = id]

\* registry[tool.id] = tool: an existing key keeps its place, a new one is appended
set_item(registry, tool) ==
    IF has_key(registry, tool.id)
    THEN [i \in 1..Len(registry) |-> IF registry[i].id = tool.id THEN tool ELSE registry[i]]
    ELSE Append(registry, tool)

\* SUPPORTED_OPERATIONS, each operation group as its dot-separated parts
SUPPORTED_OPERATIONS ==
    { <<<<"m","s","e","a","r","c","h">>>>, <<<<"e","x","p","l","a","i","n">>>>, <<<<"c","o","u","n","t">>>>, <<<<"c","l","u","s","t","e","r">>, <<"h","e","a","l","t","h">>>> }

\* One endpoint of a specification document: its path split at "/", its method
\* and the details the generator reads.
Endpoint(path, method, group, added, deprecated) ==
    [path |-> path, method |-> method, group |-> group,
     added |-> added, deprecated |-> deprecated,
     parameters |-> <<>>, request_body |-> FALSE]

\* An endpoint whose details declare a requestBody
EndpointWithBody(path, method, group, added, deprecated) ==
    [Endpoint(path, method, group, added, deprecated) EXCEPT !.request_body = TRUE]

\* A parameter of an endpoint's details
Parameter(name, required) == [name |-> name, required |-> required]

\* An endpoint whose details declare parameters
EndpointWithParameters(path, method, group, added, deprecated, parameters) ==
    [Endpoint(path, method, group, added, deprecated) EXCEPT !.parameters = parameters]

\* group_endpoints_by_operation: the supported groups of a document in order of
\* first appearance, each with its endpoints in document order
RECURSIVE group_order(_, _)
group_order(endpoints, seen) ==
    IF endpoints = <<>> THEN <<>>
    ELSE LET g == Head(endpoints).group
         IN  IF g \in SUPPORTED_OPERATIONS /\ g \notin seen
             THEN <<g>> \o group_order(Tail(endpoints), seen \union {g})
             ELSE group_order(Tail(endpoints), seen)

endpoints_of(endpoints, g) == SelectSeq(endpoints, LAMBDA e : e.group = g)

\* base_name and tool_name of generate_tools_from_openapi
tool_name_of(group) ==
    remove_underscores(concat([i \in 1..Len(group) |-> title(group[i])])) \o <<"T","o","o","l">>

\* The path parameters of an endpoint: its segments "{name}", without the braces
path_parameters_of(endpoint) ==
    {SubSeq(endpoint.path[i], 2, Len(endpoint.path[i]) - 1) :
        i \in {j \in 1..Len(endpoint.path) :
                  /\ endpoint.path[j] # <<>>
                  /\ Head(endpoint.path[j]) = "{"
                  /\ endpoint.path[j][Len(endpoint.path[j])] = "}"}}

\* extract_parameters: all_parameters by name and required_parameters. The
\* parameters start from the properties of baseToolArgs; a parameter of the
\* details is added, and may be required, only if its name is new; a path
\* parameter is required if every endpoint has it; the body is required for
\* explain and msearch.
extract_parameters(group, endpoints) ==
    LET N == 1..Len(endpoints)
        path_names == UNION {path_parameters_of(endpoints[i]) : i \in N}
        declared(i) == {endpoints[i].parameters[k].name : k \in 1..Len(endpoints[i].parameters)}
        has_body == \E i \in N : endpoints[i].request_body
        \* a details parameter is new unless a base field or a path parameter seen
        \* up to its endpoint, or an earlier details parameter, has its name
        seen_before(i) == base_fields
                          \union UNION {path_parameters_of(endpoints[j]) : j \in 1..i}
                          \union UNION {declared(j) : j \in 1..(i - 1)}
        required_declared ==
            {n \in UNION {declared(i) : i \in N} :
                \E i \in N : \E k \in 1..Len(endpoints[i].parameters) :
                    /\ endpoints[i].parameters[k].name = n
                    /\ endpoints[i].parameters[k].required
                    /\ n \notin seen_before(i)
                    /\ n # <<"b","o","d","y">> \/ \A j \in 1..(i - 1) : ~endpoints[j].request_body
                    /\ \A k2 \in 1..(k - 1) : endpoints[i].parameters[k2].name # n}
        everywhere == {n \in path_names : \A i \in N : n \in path_parameters_of(endpoints[i])}
        body_required == has_body /\ group \in {<<<<"e","x","p","l","a","i","n">>>>, <<<<"m","s","e","a","r","c","h">>>>}
    IN  [all_parameters |-> base_fields \union path_names
                            \union UNION {declared(i) : i \in N}
                            \union (IF has_body THEN {<<"b","o","d","y">>} ELSE {}),
         required_parameters |-> required_declared \union everywhere
                                 \union (IF body_required THEN {<<"b","o","d","y">>} ELSE {})]

\* base_name of generate_tools_from_openapi: the title-cased parts of the group
base_name_of(group) == concat([i \in 1..Len(group) |-> title(group[i])])

\* generate_tool_from_group: versions from the first endpoint, http_methods the
\* sorted upper-case methods joined by ", ", the schema from extract_parameters
generate_tool_from_group(group, endpoints) ==
    LET p == extract_parameters(group, endpoints)
    IN  Tool(tool_name_of(group),
             join(<<",", " ">>, sorted({upper(endpoints[i].method) : i \in 1..Len(endpoints)})),
             IF endpoints[1].added = Absent THEN <<0, 0, 0>> ELSE endpoints[1].added,
             IF endpoints[1].deprecated = Absent THEN <<99, 99, 99>> ELSE endpoints[1].deprecated,
             Schema(base_name_of(group) \o <<"A","r","g","s">>, p.all_parameters, p.required_parameters))

\* the registry after the tools of one fetched document have been inserted
RECURSIVE insert_groups(_, _, _)
insert_groups(registry, endpoints, groups) ==
    IF groups = <<>> THEN registry
    ELSE insert_groups(
            set_item(registry,
                     generate_tool_from_group(Head(groups), endpoints_of(endpoints, Head(groups)))),
            endpoints, Tail(groups))

\* A specification document as fetch_github_spec returns it, or its failure.
Doc(endpoints) == [fetched |-> TRUE, endpoints |-> endpoints]

FetchFailed == [fetched |-> FALSE, endpoints |-> <<>>]

\* generate_tools_from_openapi over the documents of SPEC_FILES: a document that
\* cannot be fetched raises, which ends the loop; the registry is returned as it is
RECURSIVE generate_tools(_, _)
generate_tools(registry, docs) ==
    IF docs = <<>> \/ ~Head(docs).fetched THEN registry
    ELSE generate_tools(
            insert_groups(registry, Head(docs).endpoints,
                          group_order(Head(docs).endpoints, {})),
            Tail(docs))

\* fetch_github_spec raised for one of the documents: raise_for_status, or
\* yaml.safe_load on a text that is no YAML
fetch_fails(docs) == \E i \in 1..Len(docs) : ~docs[i].fetched

\* A generation without its try/except: the failure of a fetch escapes
generate_tools_from_openapi_uncaught(registry, docs) ==
    [raised |-> fetch_fails(docs), registry |-> generate_tools(registry, docs)]

\* generate_tools_from_openapi: the loop in its try, "except Exception" printing
\* the error, and "return TOOL_REGISTRY" after it
generate_tools_from_openapi(registry, docs) ==
    [raised |-> FALSE, registry |-> generate_tools(registry, docs)]

(***************************************************************************)
(* The tool filter (tool_filter.py, utils.py)                              *)
(***************************************************************************)

\* An environment variable that is not set.
Unset == <<"unset">>

\* os.getenv(name, default)
getenv(value, default) == IF value = Unset THEN default ELSE value

\* parse_comma_separated on the items of text.split(','): each item stripped,
\* empty items dropped (an unset or empty variable has no items)
parse_comma_separated(items) ==
    SelectSeq([i \in 1..Len(items) |-> strip(items[i])], LAMBDA x : x # <<>>)

\* A warning of the filter: what it is about, from which list, and the name.
Warning(kind, source, name) == [kind |-> kind, source |-> source, name |-> name]

\* A selection that needs the pattern to match the whole name
regex_selects_full(regex, tool_name) == re_fullmatch(regex, tool_name)

\* if re.match(regex, tool_name, re.IGNORECASE)
regex_selects(regex, tool_name) == re_match(regex, tool_name)

\* process_regex_patterns: for each pattern, the names it matches; re.match
\* raises re.error on the first pattern that does not compile, which happens
\* only if there is a name to match it against
process_regex_patterns(regex_list, tool_names) ==
    [raised |-> tool_names # <<>> /\ \E i \in 1..Len(regex_list) : ~compiles(regex_list[i]),
     names  |-> concat([i \in 1..Len(regex_list) |->
                    IF compiles(regex_list[i])
                    THEN SelectSeq(tool_names, LAMBDA n : regex_selects(regex_list[i], n))
                    ELSE <<>>])]

\* A write filter that pops nothing
keeps_all(registry) == registry

\* apply_write_filter: pops every tool whose http_methods does not contain 'GET'
apply_write_filter(registry) ==
    SelectSeq(registry, LAMBDA t : Contains(GET, t.http_methods))

\* process_categories: the tools of the known categories, a warning per unknown one
process_categories(category_list, category_to_tools) ==
    [tools |-> concat([i \in 1..Len(category_list) |->
                    IF category_list[i] \in DOMAIN category_to_tools
                    THEN category_to_tools[category_list[i]]
                    ELSE <<>>]),
     warnings |-> {Warning("category_not_found", "disabled_categories", category_list[i]) :
                    i \in {j \in 1..Len(category_list) :
                              category_list[j] \notin DOMAIN category_to_tools}}]

\* validate_tools: the lower-cased names that are keys of the lookup, a warning
\* for each other name
validate_tools(tool_list, registry_lookup, source_name) ==
    [valid |-> {lower(tool_list[i]) :
                    i \in {j \in 1..Len(tool_list) : lower(tool_list[j]) \in registry_lookup}},
     warnings |-> {Warning("invalid_tool", source_name, tool_list[i]) :
                    i \in {j \in 1..Len(tool_list) : lower(tool_list[j]) \notin registry_lookup}}]

\* dict.update(other) on the category map
EmptyMap == [c \in {} |-> <<>>]

update(m, other) ==
    [c \in DOMAIN m \union DOMAIN other |-> IF c \in DOMAIN other THEN other[c] ELSE m[c]]

\* load_yaml_config: None without a path, when the file cannot be read or
\* parsed, or when it does not hold a mapping
load_yaml_config(filter_file) == filter_file.given /\ filter_file.loads

\* No policy file: get_tools(config='')
NoFile ==
    [given |-> FALSE, loads |-> FALSE,
     tool_category |-> [kind |-> "absent", map |-> EmptyMap],
     disabled_tools |-> <<>>, disabled_categories |-> <<>>,
     disabled_tools_regex |-> <<>>, settings |-> "absent"]

\* `not allow_write`, for None, True and False
not_allowed(allow_write) == allow_write # "True"

\* settings = tool_filters.get('settings', {}); if settings:
\*     allow_write = settings.get('allow_write', True)
effective_allow_write(allow_write, filter_file) ==
    IF load_yaml_config(filter_file) /\ filter_file.settings \notin {"absent", "empty"}
    THEN IF filter_file.settings = "false" THEN "False" ELSE "True"
    ELSE allow_write

\* The tools the disabling step removes: those whose lower-cased key is among
\* the validated names
remove_disabled(registry, all_disabled_tools) ==
    SelectSeq(registry, LAMBDA t : lower(t.id) \notin all_disabled_tools)

\* process_tool_filter(disabled_tools, tool_categories, disabled_categories,
\* disabled_tools_regex, allow_write, filter_path) on TOOL_REGISTRY = registry.
\* Every exception is caught by the function's own except branch, which leaves
\* the registry as the steps before the failure made it.
process_tool_filter(registry, disabled_tools, tool_categories, disabled_categories, disabled_tools_regex, allow_write, filter_file) ==
    LET tool_registry_lower == {lower(registry[i].id) : i \in 1..Len(registry)}
        has_config == load_yaml_config(filter_file)
        \* category_to_tools.update(...) of a value that is not a mapping raises
        update_raises ==
            \/ has_config /\ filter_file.tool_category.kind = "not_mapping"
            \/ tool_categories.kind = "not_object"
        from_file ==
            IF has_config /\ filter_file.tool_category.kind = "mapping"
            THEN update(EmptyMap, filter_file.tool_category.map)
            ELSE EmptyMap
        category_to_tools ==
            IF tool_categories.kind = "object"
            THEN update(from_file, tool_categories.map)
            ELSE from_file
        json_warnings ==
            IF tool_categories.kind = "invalid_json"
            THEN {Warning("invalid_json", "tool_categories", <<>>)}
            ELSE {}
        disabled_tools_list ==
            (IF has_config THEN filter_file.disabled_tools ELSE <<>>)
                \o parse_comma_separated(disabled_tools)
        disabled_category_list ==
            (IF has_config THEN filter_file.disabled_categories ELSE <<>>)
                \o parse_comma_separated(disabled_categories)
        disabled_tools_regex_list ==
            (IF has_config THEN filter_file.disabled_tools_regex ELSE <<>>)
                \o parse_comma_separated(disabled_tools_regex)
        allow == effective_allow_write(allow_write, filter_file)
        written == IF not_allowed(allow) THEN apply_write_filter(registry) ELSE registry
        step == IF not_allowed(allow) THEN "applied" ELSE "skipped"
        cats == process_categories(disabled_category_list, category_to_tools)
        current_tool_names == keys(written)
        rx == process_regex_patterns(disabled_tools_regex_list, current_tool_names)
        v1 == validate_tools(disabled_tools_list, tool_registry_lower, "disabled_tools")
        v2 == validate_tools(cats.tools, tool_registry_lower, "disabled_categories")
        v3 == validate_tools(rx.names, tool_registry_lower, "disabled_tools_regex")
        any_disabled == disabled_tools_list # <<>> \/ cats.tools # <<>> \/ rx.names # <<>>
    IN  IF update_raises
        THEN [registry |-> registry, after_write |-> <<>>, from_regex |-> <<>>,
              write_step |-> "not_reached", raised |-> TRUE, warnings |-> {}]
        ELSE IF rx.raised
        THEN [registry |-> written, after_write |-> current_tool_names, from_regex |-> <<>>,
              write_step |-> step, raised |-> TRUE,
              warnings |-> json_warnings \union cats.warnings]
        ELSE IF any_disabled
        THEN [registry |-> remove_disabled(written, v1.valid \union v2.valid \union v3.valid),
              after_write |-> current_tool_names, from_regex |-> rx.names,
              write_step |-> step, raised |-> FALSE,
              warnings |-> json_warnings \union cats.warnings \union v1.warnings
                             \union v2.warnings \union v3.warnings]
        ELSE [registry |-> written, after_write |-> current_tool_names, from_regex |-> rx.names,
              write_step |-> step, raised |-> FALSE,
              warnings |-> json_warnings \union cats.warnings]

\* The environment get_tools reads: OPENSEARCH_DISABLED_TOOLS, _TOOL_CATEGORIES,
\* _DISABLED_CATEGORIES, _DISABLED_TOOLS_REGEX and _SETTINGS_ALLOW_WRITE.
NoEnv ==
    [disabled_tools |-> <<>>, tool_categories |-> [kind |-> "unset", map |-> EmptyMap],
     disabled_categories |-> <<>>, disabled_tools_regex |-> <<>>, allow_write |-> Unset]

\* env_config['allow_write']: os.getenv(..., 'true').lower() == 'true'
env_allow_write(e) ==
    IF lower(getenv(e.allow_write, <<"t","r","u","e">>)) = <<"t","r","u","e">>
    THEN "True" ELSE "False"

\* Keyword arguments taken from the environment whether or not a file is given
env_arguments_merged(given, e) ==
    [disabled_tools |-> e.disabled_tools, tool_categories |-> e.tool_categories,
     disabled_categories |-> e.disabled_categories,
     disabled_tools_regex |-> e.disabled_tools_regex, allow_write |-> env_allow_write(e)]

\* The keyword arguments get_tools hands to process_tool_filter:
\* {k: v for k, v in env_config.items() if not config}; a keyword left out takes
\* its default, None
env_arguments(given, e) ==
    IF given
    THEN [disabled_tools |-> <<>>, tool_categories |-> [kind |-> "unset", map |-> EmptyMap],
          disabled_categories |-> <<>>, disabled_tools_regex |-> <<>>, allow_write |-> "None"]
    ELSE [disabled_tools |-> e.disabled_tools, tool_categories |-> e.tool_categories,
          disabled_categories |-> e.disabled_categories,
          disabled_tools_regex |-> e.disabled_tools_regex, allow_write |-> env_allow_write(e)]

\* A loop that makes the version check for serverless backends too
checks_version_always(is_serverless) == TRUE

\* if not is_serverless and not is_tool_compatible(version, info): continue
checks_version(is_serverless) == ~is_serverless

\* A stripping that leaves the schema as it is
strip_nothing(schema) == schema

\* A stripping that pops the base fields if there are any, and every property
\* otherwise
strip_some_property(schema) ==
    IF "properties" \notin DOMAIN schema THEN schema
    ELSE IF schema.properties \cap base_fields # {}
    THEN [schema EXCEPT !.properties = @ \ base_fields]
    ELSE [schema EXCEPT !.properties = {}]

\* schema = tool_info['input_schema'].copy(), then, if 'properties' in schema,
\* schema['properties'].pop(field, None) for every base field
strip_base_fields(schema) ==
    IF "properties" \in DOMAIN schema
    THEN [schema EXCEPT !.properties = @ \ base_fields]
    ELSE schema

\* The schema left in the registry entry: info.copy() and schema.copy() are
\* shallow, so 'properties' of the copy is the very dict of the registry entry
\* and the pops are made on it
schema_left_in_registry(schema) == strip_base_fields(schema)

\* The loop of get_tools over the filtered registry: each tool is copied into
\* the result, its schema stripped of the base fields, unless the version
\* check, made only when not serverless, rejects it; a bound that does not
\* parse makes get_tools raise at that tool.
single_mode_result(f, is_serverless, v) ==
    LET N == 1..Len(f.registry)
        raises(i) == checks_version(is_serverless) /\ is_tool_compatible(v, f.registry[i]).raised
        bad == \E i \in N : raises(i)
        reached(i) == \A j \in 1..i : ~raises(j)
        passes(i) == reached(i)
                     /\ (~checks_version(is_serverless) \/ is_tool_compatible(v, f.registry[i]).value)
        kept == SelectSeq([i \in N |-> [tool |-> f.registry[i], ok |-> passes(i)]],
                          LAMBDA x : x.ok)
    IN  [enabled |-> IF bad THEN <<>>
                     ELSE [i \in 1..Len(kept) |->
                             [kept[i].tool EXCEPT !.input_schema = strip_base_fields(@)]],
         registry |-> [i \in N |->
                         IF passes(i)
                         THEN [f.registry[i] EXCEPT !.input_schema = schema_left_in_registry(@)]
                         ELSE f.registry[i]],
         after_write |-> f.after_write,
         from_regex |-> f.from_regex,
         write_step |-> f.write_step, filter_raised |-> f.raised,
         warnings |-> f.warnings,
         compat_calls |-> IF checks_version(is_serverless)
                          THEN Cardinality({i \in N : i = 1 \/ reached(i - 1)})
                          ELSE 0,
         backend_calls |-> 1, raised |-> bad]

\* A server that filters in every mode
mode_filters_always(m) == TRUE

\* if mode == 'multi': return TOOL_REGISTRY
mode_filters(m) == m # "multi"

\* get_tools(mode, config): the dict it returns and what it did on the way. In
\* multi mode TOOL_REGISTRY itself is returned. In single mode the version is
\* fetched, the filter is applied to TOOL_REGISTRY, then the loop over the
\* filtered registry runs.
get_tools(registry, m, filter_file, e, is_serverless, v) ==
    IF ~mode_filters(m)
    THEN [enabled |-> registry, registry |-> registry, after_write |-> <<>>,
          from_regex |-> <<>>,
          write_step |-> "not_reached", filter_raised |-> FALSE, warnings |-> {},
          compat_calls |-> 0, backend_calls |-> 0, raised |-> FALSE]
    ELSE LET a == env_arguments(filter_file.given, e)
         IN  CHOOSE r \in
                { single_mode_result(f, is_serverless, v) :
                     f \in { process_tool_filter(registry, a.disabled_tools,
                                a.tool_categories, a.disabled_categories,
                                a.disabled_tools_regex, a.allow_write, filter_file) } } : TRUE

(***************************************************************************)
(* Inputs of the start-up: specification documents, policies, cluster      *)
(***************************************************************************)

\* Bounds of the model
MaxDisabledTools == 1

MaxRegexes == 1

\* All sequences over S of length at most n
RECURSIVE SeqsUpTo(_, _)
SeqsUpTo(S, n) ==
    IF n = 0 THEN {<<>>}
    ELSE LET shorter == SeqsUpTo(S, n - 1)
         IN  shorter \union {Append(q, x) : q \in shorter, x \in S}

\* The lists of a policy source: at most n entries of S, none of them twice
ListsUpTo(S, n) ==
    {q \in SeqsUpTo(S, n) : \A i \in 1..Len(q) : \A j \in 1..Len(q) : i # j => q[i] # q[j]}

ClusterHealthTool == <<"C","l","u","s","t","e","r","H","e","a","l","t","h","T","o","o","l">>

CountTool == <<"C","o","u","n","t","T","o","o","l">>

MsearchTool == <<"M","s","e","a","r","c","h","T","o","o","l">>

ExplainTool == <<"E","x","p","l","a","i","n","T","o","o","l">>

\* cluster.yaml: the cluster.health group (two path shapes, GET) and an
\* operation that is not in SUPPORTED_OPERATIONS
ClusterDoc ==
    Doc(<< Endpoint(<<<<"_","c","l","u","s","t","e","r">>, <<"h","e","a","l","t","h">>>>, <<"g","e","t">>, <<<<"c","l","u","s","t","e","r">>, <<"h","e","a","l","t","h">>>>,
                    <<2, 5>>, <<3>>),
           Endpoint(<<<<"_","c","l","u","s","t","e","r">>, <<"h","e","a","l","t","h">>, <<"{","i","n","d","e","x","}">>>>, <<"g","e","t">>,
                    <<<<"c","l","u","s","t","e","r">>, <<"h","e","a","l","t","h">>>>, <<2, 5>>, <<3>>),
           Endpoint(<<<<"{","i","n","d","e","x","}">>>>, <<"p","u","t">>, <<<<"i","n","d","i","c","e","s">>, <<"c","r","e","a","t","e">>>>, Absent, Absent) >>)

\* _core.yaml with a read-only group: count by GET and POST
CoreReadDoc ==
    Doc(<< Endpoint(<<<<"_","c","o","u","n","t">>>>, <<"p","o","s","t">>, <<<<"c","o","u","n","t">>>>, Absent, Absent),
           Endpoint(<<<<"{","i","n","d","e","x","}">>, <<"_","c","o","u","n","t">>>>, <<"g","e","t">>, <<<<"c","o","u","n","t">>>>, Absent, Absent) >>)

\* _core.yaml whose groups declare no GET endpoint
CoreWriteDoc ==
    Doc(<< EndpointWithBody(<<<<"_","m","s","e","a","r","c","h">>>>, <<"p","o","s","t">>, <<<<"m","s","e","a","r","c","h">>>>, <<1>>, Absent),
           EndpointWithBody(<<<<"{","i","n","d","e","x","}">>, <<"_","e","x","p","l","a","i","n">>>>, <<"p","u","t">>, <<<<"e","x","p","l","a","i","n">>>>, Absent, Absent),
           EndpointWithBody(<<<<"{","i","n","d","e","x","}">>, <<"_","e","x","p","l","a","i","n">>>>, <<"p","o","s","t">>, <<<<"e","x","p","l","a","i","n">>>>, Absent, Absent) >>)

\* What the two fetches of SPEC_FILES can yield
DocChoices ==
    { <<FetchFailed, CoreReadDoc>>, <<ClusterDoc, FetchFailed>>,
      <<ClusterDoc, CoreReadDoc>>, <<ClusterDoc, CoreWriteDoc>> }

\* Names an administrator may list as disabled: a tool id in another letter case
\* and padded with blanks, an exact id, and a name of no tool
DisabledNames == { <<" ","l","i","s","t","i","n","d","e","x","t","o","o","l"," ">>, MsearchTool, <<"N","o","S","u","c","h","T","o","o","l">> }

\* Patterns an administrator may list: "search.*", "Get", ".*Tool" and "(x"
Patterns == { <<"s","e","a","r","c","h","*">>, <<"G","e","t">>, <<"*","T","o","o","l">>, <<"(","x">> }

critical == <<"c","r","i","t","i","c","a","l">>

missing == <<"m","i","s","s","i","n","g">>

CategoryMap == [c \in {critical} |-> <<SearchIndexTool, <<"e","x","p","l","a","i","n","t","o","o","l">>, <<"N","o","S","u","c","h","T","o","o","l">>>>]

\* (category map, disabled categories) of a policy file
FileCategories ==
    { <<[kind |-> "absent", map |-> EmptyMap], <<>> >>,
      <<[kind |-> "mapping", map |-> CategoryMap], <<critical>> >>,
      <<[kind |-> "mapping", map |-> CategoryMap], <<missing>> >>,
      <<[kind |-> "not_mapping", map |-> EmptyMap], <<critical>> >> }

\* (OPENSEARCH_TOOL_CATEGORIES, OPENSEARCH_DISABLED_CATEGORIES)
EnvCategories ==
    { <<[kind |-> "unset", map |-> EmptyMap], <<>> >>,
      <<[kind |-> "object", map |-> CategoryMap], <<critical>> >>,
      <<[kind |-> "object", map |-> CategoryMap], <<missing>> >>,
      <<[kind |-> "invalid_json", map |-> EmptyMap], <<critical>> >>,
      <<[kind |-> "not_object", map |-> EmptyMap], <<critical>> >> }

\* Policy files: every combination of lists, categories and settings, and a
\* file that cannot be loaded
PolicyFiles ==
    { [given |-> TRUE, loads |-> TRUE, tool_category |-> c[1],
       disabled_tools |-> d, disabled_categories |-> c[2],
       disabled_tools_regex |-> r, settings |-> st] :
        d \in ListsUpTo(DisabledNames, MaxDisabledTools), c \in FileCategories,
        r \in ListsUpTo(Patterns, MaxRegexes),
        st \in {"absent", "true", "false", "other"} }
    \union {[NoFile EXCEPT !.given = TRUE]}

\* Environments: every combination of the five variables
Environments ==
    { [disabled_tools |-> d, tool_categories |-> c[1], disabled_categories |-> c[2],
       disabled_tools_regex |-> r, allow_write |-> w] :
        d \in ListsUpTo(DisabledNames, MaxDisabledTools), c \in EnvCategories,
        r \in ListsUpTo(Patterns, MaxRegexes),
        w \in {Unset, <<"f","a","l","s","e">>, <<"T","R","U","E">>} }

\* A policy file that names tools, categories and patterns and forbids writes
BusyFile ==
    [given |-> TRUE, loads |-> TRUE,
     tool_category |-> [kind |-> "mapping", map |-> CategoryMap],
     disabled_tools |-> <<GetShardsTool>>, disabled_categories |-> <<critical>>,
     disabled_tools_regex |-> <<<<"*","T","o","o","l">>>>, settings |-> "false"]

\* An environment that sets every policy variable, for the runs that also have a file
BusyEnv ==
    [disabled_tools |-> <<GetShardsTool>>,
     tool_categories |-> [kind |-> "object", map |-> CategoryMap],
     disabled_categories |-> <<critical>>, disabled_tools_regex |-> <<<<"*","T","o","o","l">>>>,
     allow_write |-> <<"f","a","l","s","e">>]

\* Versions the cluster may report
ClusterVersions == { <<0, 9, 0>>, <<2, 5, 1>>, <<3, 0, 1>> }

(***************************************************************************)
(* Start-up: generation, then filtering (stdio_server.serve,               *)
(* streaming_server.create_mcp_server)                                     *)
(***************************************************************************)

NoCall == [phase |-> "none"]

InitFilter ==
    /\ pc = "init"
    /\ TOOL_REGISTRY = StaticRegistry
    /\ generated = <<>>
    /\ spec_docs = <<>>
    /\ mode = "single"
    /\ config = NoFile
    /\ env = NoEnv
    /\ serverless = FALSE
    /\ version = <<0, 0, 0>>
    /\ registry0 = <<>>
    /\ after_write = <<>>
    /\ from_regex = <<>>
    /\ write_step = "not_reached"
    /\ filter_raised = FALSE
    /\ compat_calls = 0
    /\ backend_calls = 0
    /\ warnings = {}
    /\ enabled = <<>>
    /\ call = NoCall
    /\ sel = NoCall
    /\ vc = NoCall
    /\ cfg = NoCall

\* await generate_tools_from_openapi()
GenerateToolsFromOpenapi ==
    /\ pc = "init"
    /\ \E docs \in DocChoices :
          \E r \in {generate_tools_from_openapi(TOOL_REGISTRY, docs)} :
              /\ spec_docs' = docs
              /\ TOOL_REGISTRY' = r.registry
              /\ generated' = SubSeq(keys(r.registry), Len(TOOL_REGISTRY) + 1, Len(r.registry))
              /\ pc' = IF r.raised THEN "start_failed" ELSE "generated"
    /\ UNCHANGED <<mode, config, env, serverless, version, registry0, after_write,
                   from_regex, write_step, filter_raised, compat_calls, backend_calls, warnings,
                   enabled,
                   call, sel, vc, cfg>>

\* What one get_tools call leaves behind
GetToolsEffect(m, filter_file, e, is_serverless, v) ==
    \E r \in {get_tools(TOOL_REGISTRY, m, filter_file, e, is_serverless, v)} :
        /\ mode' = m
        /\ config' = filter_file
        /\ env' = e
        /\ serverless' = is_serverless
        /\ version' = v
        /\ registry0' = TOOL_REGISTRY
        /\ TOOL_REGISTRY' = r.registry
        /\ after_write' = r.after_write
        /\ from_regex' = r.from_regex
        /\ write_step' = r.write_step
        /\ filter_raised' = r.filter_raised
        /\ compat_calls' = r.compat_calls
        /\ backend_calls' = r.backend_calls
        /\ warnings' = r.warnings
        /\ enabled' = r.enabled
        /\ pc' = IF r.raised THEN "failed" ELSE "filtered"
        /\ UNCHANGED <<generated, spec_docs, call, sel, vc, cfg>>

\* enabled_tools = get_tools(mode, config) in single mode, policy from the environment
GetToolsFromEnv ==
    /\ pc = "generated"
    /\ \E e \in Environments, s \in BOOLEAN, v \in ClusterVersions :
          GetToolsEffect("single", NoFile, e, s, v)

\* enabled_tools = get_tools(mode, config) in single mode with a policy file
GetToolsFromFile ==
    /\ pc = "generated"
    /\ \E f \in PolicyFiles, e \in {NoEnv, BusyEnv}, s \in BOOLEAN, v \in ClusterVersions :
          GetToolsEffect("single", f, e, s, v)

\* enabled_tools = get_tools(mode, config) in multi mode
GetToolsMulti ==
    /\ pc = "generated"
    /\ \E f \in {NoFile, [NoFile EXCEPT !.given = TRUE], BusyFile}, e \in {NoEnv, BusyEnv},
          s \in BOOLEAN, v \in ClusterVersions :
          GetToolsEffect("multi", f, e, s, v)

NextFilter == GenerateToolsFromOpenapi \/ GetToolsFromEnv \/ GetToolsFromFile \/ GetToolsMulti

Spec == InitFilter /\ [][NextFilter]_vars

(***************************************************************************)
(* Properties of the tool filter                                           *)
(***************************************************************************)

HttpVerbs == { GET, <<"P","O","S","T">>, <<"P","U","T">>, <<"D","E","L","E","T","E">>, <<"H","E","A","D">>, <<"P","A","T","C","H">> }

\* The HTTP methods a tool's http_methods names
methods_listed(http_methods) == {m \in HttpVerbs : Contains(m, http_methods)}

\* get_tools has returned in single mode
FilteredSingle == pc = "filtered" /\ mode = "single"

\* The allow_write value the write-gating step tests
AllowWrite == effective_allow_write(env_arguments(config.given, env).allow_write, config)

\* The policy in force sets allow-write to false in so many words
ExplicitlyFalse ==
    IF config.given
    THEN config.loads /\ config.settings = "false"
    ELSE env.allow_write # Unset /\ lower(env.allow_write) # <<"t","r","u","e">>

ids(registry) == {registry[i].id : i \in 1..Len(registry)}

\* C1: when the write-gating step runs with allowWrite false, the tools it
\* leaves are exactly those of the registry whose httpMethods include GET, in
\* their order; when it runs with allowWrite true it leaves every tool.
C1_WriteGatingStep ==
    (FilteredSingle /\ write_step # "not_reached") =>
        /\ AllowWrite = "False" =>
              after_write = keys(SelectSeq(registry0,
                                LAMBDA t : GET \in methods_listed(t.http_methods)))
        /\ AllowWrite = "True" => after_write = keys(registry0)

\* C1 witness: allowWrite false, and the step removed some tools and kept others
C1_Witness ==
    /\ FilteredSingle /\ write_step = "applied" /\ AllowWrite = "False"
    /\ 0 < Len(after_write) /\ Len(after_write) < Len(registry0)
    /\ \E i \in 1..Len(registry0) :
          /\ registry0[i].id \in Range(after_write)
          /\ methods_listed(registry0[i].http_methods) = {GET, <<"P","O","S","T">>}

\* C2: with allowWrite false, no tool of the enabled set is able to issue an
\* HTTP method other than GET.
C2_NoWriteCapableToolEnabled ==
    (FilteredSingle /\ AllowWrite = "False") =>
        \A i \in 1..Len(enabled) : methods_listed(enabled[i].http_methods) \subseteq {GET}

\* C3: unless the policy in force explicitly sets allow-write to false, the
\* filter removes no tool on account of its HTTP methods.
C3_AllowWriteDefaultsToTrue ==
    (FilteredSingle /\ ~ExplicitlyFalse) =>
        /\ write_step # "applied"
        /\ write_step = "skipped" => after_write = keys(registry0)

\* The disabled-tool list, the disabled categories, the category map and the
\* patterns of the policy in force
PolicyDisabledTools ==
    IF config.given THEN (IF config.loads THEN config.disabled_tools ELSE <<>>)
    ELSE parse_comma_separated(env.disabled_tools)

PolicyDisabledCategories ==
    IF config.given THEN (IF config.loads THEN config.disabled_categories ELSE <<>>)
    ELSE parse_comma_separated(env.disabled_categories)

PolicyCategoryMap ==
    IF config.given
    THEN (IF config.loads /\ config.tool_category.kind = "mapping"
          THEN config.tool_category.map ELSE EmptyMap)
    ELSE (IF env.tool_categories.kind = "object" THEN env.tool_categories.map ELSE EmptyMap)

PolicyPatterns ==
    IF config.given THEN (IF config.loads THEN config.disabled_tools_regex ELSE <<>>)
    ELSE parse_comma_separated(env.disabled_tools_regex)

\* The names the policy disables: listed, member of a disabled category, or
\* selected by a pattern among the tools left by write gating
NamedByPolicy ==
    Range(PolicyDisabledTools)
    \union UNION { Range(PolicyCategoryMap[c]) :
                     c \in Range(PolicyDisabledCategories) \intersect DOMAIN PolicyCategoryMap }
    \union Range(from_regex)

\* The registry the disabling step starts from
BeforeDisabling == IF write_step = "not_reached" THEN keys(registry0) ELSE after_write

\* C4: after policy application a tool is removed if and only if its id equals,
\* ignoring case, a listed name, a member of a disabled category or a
\* regex-derived name; every other tool is kept.
C4_RemovedIffNamed ==
    FilteredSingle =>
        keys(TOOL_REGISTRY) =
            SelectSeq(BeforeDisabling,
                      LAMBDA id : ~\E n \in NamedByPolicy : lower(n) = lower(id))

\* C4, where process_tool_filter did not end in its except branch
C4_RemovedIffNamedUnlessRaised ==
    (FilteredSingle /\ ~filter_raised) =>
        /\ keys(TOOL_REGISTRY) =
              SelectSeq(BeforeDisabling,
                        LAMBDA id : ~\E n \in NamedByPolicy : lower(n) = lower(id))
        /\ \A n \in NamedByPolicy :
              (\A id \in ids(registry0) : lower(n) # lower(id))
                 => \E w \in warnings : w.kind = "invalid_tool" /\ w.name = n
        /\ \A c \in Range(PolicyDisabledCategories) \ DOMAIN PolicyCategoryMap :
              \E w \in warnings : w.kind = "category_not_found" /\ w.name = c

\* The names the policy disables by list or by category
NamedExplicitly ==
    Range(PolicyDisabledTools)
    \union UNION { Range(PolicyCategoryMap[c]) :
                     c \in Range(PolicyDisabledCategories) \intersect DOMAIN PolicyCategoryMap }

\* C28: whatever else the policy holds (a pattern that does not compile, a
\* category map that is no mapping), every tool of the registry named, ignoring
\* case, by the disabled list or by a disabled category is absent from the
\* single-mode enabled set.
C28_FailureNeverReenables ==
    FilteredSingle =>
        \A id \in ids(registry0) :
            (\E n \in NamedExplicitly : lower(n) = lower(id)) => id \notin Range(keys(TOOL_REGISTRY))

\* C28, where process_tool_filter did not end in its except branch
C28_DisabledUnlessRaised ==
    (FilteredSingle /\ ~filter_raised) =>
        \A id \in ids(registry0) :
            (\E n \in NamedExplicitly : lower(n) = lower(id)) => id \notin Range(keys(TOOL_REGISTRY))

\* C5: a tool id left by write gating is disabled by regex exactly when some
\* configured pattern matches the whole id, ignoring case.
C5_RegexFullMatch ==
    (FilteredSingle /\ write_step # "not_reached") =>
        \A i \in 1..Len(after_write) :
            after_write[i] \in Range(from_regex)
              <=> \E j \in 1..Len(PolicyPatterns) :
                     /\ compiles(PolicyPatterns[j])
                     /\ re_fullmatch(PolicyPatterns[j], after_write[i])

\* C5 with re.match's anchoring (start of the id only), where no pattern raised
C5_RegexPrefixMatchUnlessRaised ==
    (FilteredSingle /\ ~filter_raised) =>
        /\ Range(from_regex) \subseteq Range(after_write)
        /\ \A i \in 1..Len(after_write) :
              after_write[i] \in Range(from_regex)
                <=> \E j \in 1..Len(PolicyPatterns) :
                       /\ compiles(PolicyPatterns[j])
                       /\ re_match(PolicyPatterns[j], after_write[i])

\* C6: with a policy file, the enabled set is the one the same registry, file
\* and cluster give under an empty environment: the environment's policy
\* variables do not reach the result.
C6_FileIsTheOnlySource ==
    (FilteredSingle /\ config.given) =>
        enabled = get_tools(registry0, "single", config, NoEnv, serverless, version).enabled

\* C6 witness: a file is given, the environment sets every policy variable, and
\* tools the environment would have disabled are enabled
C6_Witness ==
    /\ FilteredSingle /\ config.given /\ env = BusyEnv
    /\ GetShardsTool \in ids(enabled)
    /\ SearchIndexTool \in ids(enabled)
    /\ \E i \in 1..Len(enabled) : ~Contains(GET, enabled[i].http_methods)

\* A tool's bounds contain v, with (major, minor, patch) as one number
Num(v) == v[1] * 10000 + v[2] * 100 + v[3]

BoundsContain(t, v) ==
    /\ Num(parse(min_version_of(t))) <= Num(v)
    /\ Num(v) <= Num(parse(max_version_of(t)))

\* C10: in single mode with a serverless backend the filter makes no version
\* check and every tool left by the policy filters is enabled; otherwise a tool
\* left by the policy filters is enabled if and only if its bounds contain the
\* cluster version.
C10_ServerlessSkipsVersionCheck ==
    FilteredSingle =>
        /\ serverless => compat_calls = 0 /\ enabled = TOOL_REGISTRY
        /\ ~serverless =>
              enabled = SelectSeq(TOOL_REGISTRY, LAMBDA t : BoundsContain(t, version))

\* C10 witness: serverless, and an enabled tool whose bounds exclude the version
C10_Witness ==
    /\ FilteredSingle /\ serverless
    /\ \E i \in 1..Len(enabled) : ~BoundsContain(enabled[i], version)

\* The base fields are among the properties a schema advertises
AdvertisesBaseFields(schema) ==
    "properties" \in DOMAIN schema /\ base_fields \subseteq schema.properties

\* C12: single-mode get_tools leaves the registry it filters as it found it:
\* every tool id is still there, and every schema still has the base fields
\* among its properties.
C12_RegistryNotMutated ==
    (pc \in {"filtered", "failed"} /\ mode = "single") =>
        \A i \in 1..Len(registry0) :
            /\ has_key(TOOL_REGISTRY, registry0[i].id)
            /\ AdvertisesBaseFields(lookup(TOOL_REGISTRY, registry0[i].id).input_schema)

\* C15: in multi mode get_tools returns every tool of the registry, each schema
\* with the base fields, whatever the policy, the version and the backend, and
\* makes no call to the backend.
C15_MultiModeReturnsAll ==
    (pc \in {"filtered", "failed"} /\ mode = "multi") =>
        /\ pc = "filtered"
        /\ enabled = registry0
        /\ TOOL_REGISTRY = registry0
        /\ \A i \in 1..Len(enabled) : AdvertisesBaseFields(enabled[i].input_schema)
        /\ backend_calls = 0
        /\ compat_calls = 0

\* C15 witness: multi mode with a policy that forbids writes and names tools,
\* a version outside the bounds of an enabled tool, and an enabled tool that
\* declares no GET
C15_Witness ==
    /\ pc = "filtered" /\ mode = "multi"
    /\ config = BusyFile /\ env = BusyEnv /\ ~serverless
    /\ \E i \in 1..Len(enabled) : ~BoundsContain(enabled[i], version)
    /\ \E i \in 1..Len(enabled) : ~Contains(GET, enabled[i].http_methods)
    /\ \E i \in 1..Len(enabled) : enabled[i].id = GetShardsTool

\* C16: when the fetch of a specification document fails, generation raises
\* nothing and TOOL_REGISTRY starts with the static tools, unchanged, and holds
\* every tool of the documents fetched before the one that failed.
C16_GenerationFailureKeepsRegistry ==
    (pc \in {"generated", "start_failed"} /\ fetch_fails(spec_docs)) =>
        LET failed == CHOOSE i \in 1..Len(spec_docs) :
                          /\ ~spec_docs[i].fetched
                          /\ \A j \in 1..(i - 1) : spec_docs[j].fetched
        IN  /\ pc = "generated"
            /\ SubSeq(TOOL_REGISTRY, 1, Len(StaticRegistry)) = StaticRegistry
            /\ \A j \in 1..(failed - 1) :
                  \A g \in SUPPORTED_OPERATIONS :
                      endpoints_of(spec_docs[j].endpoints, g) # <<>> =>
                          /\ has_key(TOOL_REGISTRY, tool_name_of(g))
                          /\ lookup(TOOL_REGISTRY, tool_name_of(g)) =
                                 generate_tool_from_group(g, endpoints_of(spec_docs[j].endpoints, g))

\* C16 witness: the second fetch failed after the first document gave a tool
C16_Witness ==
    /\ pc = "generated"
    /\ spec_docs = <<ClusterDoc, FetchFailed>>
    /\ generated = <<ClusterHealthTool>>
    /\ Len(TOOL_REGISTRY) = Len(StaticRegistry) + 1

(***************************************************************************)
(* is_tool_compatible on its own (utils.py)                                *)
(***************************************************************************)

\* Bound of the model: the largest version component
MaxComponent == 1

\* The filter's variables, at rest
IdleFilter ==
    /\ TOOL_REGISTRY = StaticRegistry
    /\ generated = <<>>
    /\ spec_docs = <<>>
    /\ mode = "single"
    /\ config = NoFile
    /\ env = NoEnv
    /\ serverless = FALSE
    /\ version = <<0, 0, 0>>
    /\ registry0 = <<>>
    /\ after_write = <<>>
    /\ from_regex = <<>>
    /\ write_step = "not_reached"
    /\ filter_raised = FALSE
    /\ compat_calls = 0
    /\ backend_calls = 0
    /\ warnings = {}

Components == 0..MaxComponent

\* Version strings with one, two or three components
VersionTexts ==
    { <<a>> : a \in Components }
    \union { <<a, b>> : a \in Components, b \in Components }
    \union { <<a, b, c>> : a \in Components, b \in Components, c \in Components }

\* Values of a tool's min_version / max_version: absent, a version string,
\* 'not_a_version', and a string with four components
BoundTexts == {Absent} \union VersionTexts \union { <<-1>>, <<1, 0, 0, 0>> }

InitVersion ==
    /\ pc = "version"
    /\ IdleFilter
    /\ enabled = <<>>
    /\ call = NoCall
    /\ sel = NoCall
    /\ vc = NoCall
    /\ cfg = NoCall

\* One call is_tool_compatible(current_version, tool_info)
IsToolCompatible ==
    /\ pc = "version"
    /\ \E v \in {t \in VersionTexts : Len(t) = 3}, lo \in BoundTexts, hi \in BoundTexts :
          \E r \in {is_tool_compatible(v, [min_version |-> lo, max_version |-> hi])} :
              vc' = [phase |-> "done", current_version |-> v, min_version |-> lo,
                     max_version |-> hi, raised |-> r.raised, value |-> r.value]
    /\ pc' = "version_done"
    /\ UNCHANGED <<varsFilter, call, sel, cfg>>

SpecVersion == InitVersion /\ [][IsToolCompatible]_vars

\* A bound as the claim reads it: missing components are zero, a missing bound
\* is the default
IsVersionText(text) == text \in VersionTexts

ZeroFilled(text) ==
    IF Len(text) = 1 THEN <<text[1], 0, 0>>
    ELSE IF Len(text) = 2 THEN <<text[1], text[2], 0>>
    ELSE text

\* C9: is_tool_compatible raises exactly when a given bound is not a version;
\* otherwise it returns TRUE exactly when min <= v <= max in (major, minor,
\* patch) order, both ends included, with bounds zero-filled and defaulting to
\* 0.0.0 and 99.99.99.
C9_VersionContainment ==
    vc.phase = "done" =>
        LET bad(b) == b # Absent /\ ~IsVersionText(b)
            lo == IF vc.min_version = Absent THEN <<0, 0, 0>> ELSE ZeroFilled(vc.min_version)
            hi == IF vc.max_version = Absent THEN <<99, 99, 99>> ELSE ZeroFilled(vc.max_version)
        IN  /\ vc.raised <=> (bad(vc.min_version) \/ bad(vc.max_version))
            /\ ~vc.raised =>
                  (vc.value <=> (Num(lo) <= Num(vc.current_version)
                                 /\ Num(vc.current_version) <= Num(hi)))

\* C9 witness: a version equal to a zero-filled upper bound, above a zero-filled
\* lower bound, found compatible
C9_Witness ==
    /\ vc.phase = "done" /\ ~vc.raised /\ vc.value
    /\ vc.max_version # Absent /\ Len(vc.max_version) = 1
    /\ vc.min_version # Absent /\ Len(vc.min_version) = 2
    /\ vc.current_version = ZeroFilled(vc.max_version)
    /\ vc.current_version # ZeroFilled(vc.min_version)

(***************************************************************************)
(* select_endpoint (tool_generator.py)                                     *)
(***************************************************************************)

\* Bound of the model: the largest number of endpoints in a group
MaxEndpoints == 3

\* A value that is None
NoneValue == <<"None">>

\* The path parameter of a segment, for a segment that is "{name}"
is_placeholder(p) == p # <<>> /\ Head(p) = "{" /\ p[Len(p)] = "}"

param_name(p) == SubSeq(p, 2, Len(p) - 1)

\* [p[1:-1] for p in path.split('/') if p.startswith('{') and p.endswith('}')]
path_params(path) ==
    LET holes == SelectSeq(path, is_placeholder)
    IN  [i \in 1..Len(holes) |-> param_name(holes[i])]

\* valid_params: the keys whose value is not None, '', {} or []
valid_params(params) == {k \in DOMAIN params : params[k] \notin {NoneValue, <<>>}}

\* The sort key: the number of path parameters that have a valid value
satisfied(ep, valid) == Len(SelectSeq(path_params(ep.path), LAMBDA n : n \in valid))

\* sorted(endpoints, key=..., reverse=True): stable, larger keys first
RECURSIVE sorted_stable(_, _, _, _)
sorted_stable(endpoints, valid, k, descending) ==
    LET here == SelectSeq(endpoints, LAMBDA ep : satisfied(ep, valid) = k)
    IN  IF k = 0 THEN here
        ELSE IF descending THEN here \o sorted_stable(endpoints, valid, k - 1, descending)
        ELSE sorted_stable(endpoints, valid, k - 1, descending) \o here

\* The sort key is at most the number of segments of the longest path
max_key(endpoints) ==
    LET lens == {Len(endpoints[i].path) : i \in 1..Len(endpoints)}
    IN  CHOOSE n \in lens : \A m \in lens : m <= n

\* A ranking with the smaller keys first
sorted_endpoints_ascending(endpoints, valid) == sorted_stable(endpoints, valid, max_key(endpoints), FALSE)

\* sorted_endpoints = sorted(endpoints, key=..., reverse=True)
sorted_endpoints(endpoints, valid) == sorted_stable(endpoints, valid, max_key(endpoints), TRUE)

\* all(param in valid_params for param in path_params)
all_bound(ep, valid) == \A n \in Range(path_params(ep.path)) : n \in valid

\* not any('{' in p for p in ep['path'].split('/'))
no_brace(ep) == \A i \in 1..Len(ep.path) : ~Has("{", ep.path[i])

\* select_endpoint(endpoints, params)
select_endpoint(endpoints, params) ==
    LET valid == valid_params(params)
        ranked == sorted_endpoints(endpoints, valid)
        fits == SelectSeq(ranked, LAMBDA ep : all_bound(ep, valid))
        plain == SelectSeq(endpoints, no_brace)
    IN  IF fits # <<>> THEN fits[1]
        ELSE IF plain # <<>> THEN plain[1]
        ELSE endpoints[1]

index == <<"i","n","d","e","x">>

shard == <<"s","h","a","r","d">>

HealthPath == <<<<"_","c","l","u","s","t","e","r">>, <<"h","e","a","l","t","h">>>>

HealthIndexPath == <<<<"_","c","l","u","s","t","e","r">>, <<"h","e","a","l","t","h">>, <<"{","i","n","d","e","x","}">>>>

HealthShardPath == <<<<"_","c","l","u","s","t","e","r">>, <<"h","e","a","l","t","h">>, <<"{","s","h","a","r","d","}">>>>

HealthIndexShardPath == <<<<"_","c","l","u","s","t","e","r">>, <<"h","e","a","l","t","h">>, <<"{","i","n","d","e","x","}">>, <<"{","s","h","a","r","d","}">>>>

Paths == {HealthPath, HealthIndexPath, HealthShardPath, HealthIndexShardPath}

\* Groups: up to MaxEndpoints endpoints with different paths, in every order
Groups ==
    { [i \in 1..Len(q) |->
          Endpoint(q[i], <<"g","e","t">>, <<<<"c","l","u","s","t","e","r">>, <<"h","e","a","l","t","h">>>>, Absent, Absent)] :
        q \in ListsUpTo(Paths, MaxEndpoints) \ {<<>>} }

\* Arguments: each of index and shard absent, None, '' or a value
Params ==
    UNION { [K -> {NoneValue, <<>>, <<"x">>}] : K \in SUBSET {index, shard} }

InitSelect ==
    /\ pc = "select"
    /\ IdleFilter
    /\ enabled = <<>>
    /\ call = NoCall
    /\ sel = NoCall
    /\ vc = NoCall
    /\ cfg = NoCall

\* One call select_endpoint(endpoints, params)
SelectEndpoint ==
    /\ pc = "select"
    /\ \E endpoints \in Groups, params \in Params :
          sel' = [phase |-> "done", endpoints |-> endpoints, params |-> params,
                  selected |-> select_endpoint(endpoints, params)]
    /\ pc' = "select_done"
    /\ UNCHANGED <<varsFilter, call, vc, cfg>>

SpecSelect == InitSelect /\ [][SelectEndpoint]_vars

\* The arguments that count: present, and neither None nor empty
Bound(params) == {k \in DOMAIN params : params[k] # NoneValue /\ params[k] # <<>>}

Placeholders(ep) == {i \in 1..Len(ep.path) : is_placeholder(ep.path[i])}

Qualifies(ep, params) ==
    \A i \in Placeholders(ep) : param_name(ep.path[i]) \in Bound(params)

\* C8: if some endpoint has all its placeholders bound by the non-empty
\* arguments, select_endpoint returns the first endpoint, in the group's order,
\* among those that have the most placeholders of all such endpoints;
\* otherwise it returns the first endpoint without placeholders, or else the
\* first endpoint.
C8_SelectEndpoint ==
    sel.phase = "done" =>
        LET eps == sel.endpoints
            Q == {i \in 1..Len(eps) : Qualifies(eps[i], sel.params)}
            best == {i \in Q : \A j \in Q :
                        Cardinality(Placeholders(eps[j])) <= Cardinality(Placeholders(eps[i]))}
            free == {i \in 1..Len(eps) : Placeholders(eps[i]) = {}}
            first(I) == CHOOSE i \in I : \A j \in I : i <= j
        IN  IF Q # {} THEN sel.selected = eps[first(best)]
            ELSE IF free # {} THEN sel.selected = eps[first(free)]
            ELSE sel.selected = eps[1]

\* C8 witness: with /_cluster/health, /_cluster/health/{index} and
\* /_cluster/health/{index}/{shard}, a shard given without an index selects the
\* path without parameters
C8_Witness ==
    /\ sel.phase = "done"
    /\ [i \in 1..Len(sel.endpoints) |-> sel.endpoints[i].path]
          = <<HealthIndexShardPath, HealthIndexPath, HealthPath>>
    /\ DOMAIN sel.params = {index, shard}
    /\ sel.params[shard] = <<"x">> /\ sel.params[index] = <<>>
    /\ sel.selected.path = HealthPath

(***************************************************************************)
(* call_tool (stdio_server.py) and the tool functions it dispatches to     *)
(***************************************************************************)

aggs == <<"a","g","g","s">>

body == <<"b","o","d","y">>

\* Kinds of argument value: a string holding JSON, a string that is not JSON,
\* a mapping
ArgKinds == {"str", "bad_json", "dict"}

is_str(kind) == kind \in {"str", "bad_json"}

\* The fields of the args models (tool_params.py, create_model in
\* generate_tool_from_group): field -> declared type
NoFields == [k \in {} |-> "Any"]

IndexField == [k \in {index} |-> "str"]

AggregationFields == [k \in {index, aggs} |-> IF k = index THEN "str" ELSE "dict"]

GeneratedFields == [k \in {index, body} |-> IF k = index THEN "str" ELSE "Any"]

\* An entry of enabled_tools as call_tool uses it
Entry(id, display_name, fields, required, function, error_prefix) ==
    [id |-> id, display_name |-> display_name, fields |-> fields, required |-> required,
     function |-> function, error_prefix |-> error_prefix]

ListEntry(display_name) ==
    Entry(ListIndexTool, display_name, NoFields, {}, "checked", "Error listing indices: ")

MappingEntry(display_name) ==
    Entry(IndexMappingTool, display_name, IndexField, {index}, "checked", "Error getting mapping: ")

AggregationEntry ==
    Entry(AggregationTool, Absent, AggregationFields, {index, aggs}, "unchecked",
          "Error executing aggregation query: ")

CountEntry == Entry(CountTool, Absent, GeneratedFields, {}, "generated", "Error: ")

MsearchEntry == Entry(MsearchTool, Absent, GeneratedFields, {}, "generated", "Error: ")

list_indices == <<"l","i","s","t","_","i","n","d","i","c","e","s">>

\* enabled_tools at the time of the call: as registered, and with display names
\* from the tool customization
EnabledChoices ==
    { <<ListEntry(Absent), MappingEntry(Absent), AggregationEntry, CountEntry, MsearchEntry>>,
      <<ListEntry(list_indices), MappingEntry(ListIndexTool), CountEntry>> }

CallNames == {ListIndexTool, list_indices, IndexMappingTool, AggregationTool, CountTool,
              MsearchTool, <<"N","o","S","u","c","h","T","o","o","l">>}

CallArguments == UNION { [K -> ArgKinds] : K \in SUBSET {index, aggs, body} }

Failures == {"none", "connection_failure", "version_incompatible", "backend_error"}

\* for key, tool_info in enabled_tools.items():
\*     if tool_info.get('display_name', key) == name: found_tool_key = key; break
find_tool(tools, name) ==
    LET shown(t) == IF t.display_name = Absent THEN t.id ELSE t.display_name
        hits == {i \in 1..Len(tools) : shown(tools[i]) = name}
    IN  IF hits = {} THEN 0 ELSE CHOOSE i \in hits : \A j \in hits : i <= j

\* tool['args_model'](**arguments): required fields are there and every given
\* field has its declared type; other keys are ignored
args_model_accepts(tool, arguments) ==
    /\ tool.required \subseteq DOMAIN arguments
    /\ \A k \in DOMAIN arguments \cap DOMAIN tool.fields :
          \/ tool.fields[k] = "Any"
          \/ tool.fields[k] = "str" /\ is_str(arguments[k])
          \/ tool.fields[k] = "dict" /\ arguments[k] = "dict"

TextContent(prefix, what) == [type |-> "text", text |-> <<prefix, what>>]

\* process_body raises for a string that is not JSON, except for MsearchTool
process_body_raises(tool, arguments) ==
    /\ body \in DOMAIN arguments
    /\ arguments[body] = "bad_json"
    /\ tool.id # MsearchTool

\* The exception, if any, that a tool function meets, in the order of its steps
met(tool, arguments, failure) ==
    IF tool.function = "generated"
    THEN IF failure = "connection_failure" THEN "connection_failure"
         ELSE IF failure = "version_incompatible" THEN "version_incompatible"
         ELSE IF process_body_raises(tool, arguments) THEN "invalid_body"
         ELSE failure
    ELSE IF tool.function = "unchecked" /\ failure = "version_incompatible" THEN "none"
    ELSE failure

\* A tool function that lets its exceptions escape
tool_function_uncaught(tool, arguments, failure) ==
    LET e == met(tool, arguments, failure)
    IN  IF e = "none" THEN [raised |-> FALSE, blocks |-> <<TextContent("", "result")>>]
        ELSE [raised |-> TRUE, blocks |-> <<>>]

\* tool['function'](parsed): list_indices_tool .. get_shards_tool, tool_func
tool_function(tool, arguments, failure) ==
    LET e == met(tool, arguments, failure)
    IN  IF e = "none" THEN [raised |-> FALSE, blocks |-> <<TextContent("", "result")>>]
        ELSE IF tool.function = "generated" /\ e = "connection_failure"
        THEN [raised |-> FALSE,
              blocks |-> <<TextContent("Error initializing OpenSearch client: ", e)>>]
        ELSE [raised |-> FALSE, blocks |-> <<TextContent(tool.error_prefix, e)>>]

\* call_tool(name, arguments)
call_tool(tools, name, arguments, failure) ==
    LET found_tool_key == find_tool(tools, name)
    IN  IF found_tool_key = 0
        THEN [raised |-> TRUE, error |-> "ValueError", invoked |-> Absent, blocks |-> <<>>]
        ELSE IF ~args_model_accepts(tools[found_tool_key], arguments)
        THEN [raised |-> TRUE, error |-> "ValidationError", invoked |-> Absent, blocks |-> <<>>]
        ELSE LET r == tool_function(tools[found_tool_key], arguments, failure)
             IN  [raised |-> r.raised, error |-> IF r.raised THEN "Exception" ELSE "none",
                  invoked |-> tools[found_tool_key].id, blocks |-> r.blocks]

InitCall ==
    /\ pc = "call"
    /\ IdleFilter
    /\ enabled \in EnabledChoices
    /\ call = NoCall
    /\ sel = NoCall
    /\ vc = NoCall
    /\ cfg = NoCall

\* One request to call a tool
CallTool ==
    /\ pc = "call"
    /\ \E name \in CallNames, arguments \in CallArguments, failure \in Failures :
          \E r \in {call_tool(enabled, name, arguments, failure)} :
              call' = [phase |-> "done", name |-> name, arguments |-> arguments,
                       failure |-> failure, raised |-> r.raised, error |-> r.error,
                       invoked |-> r.invoked, blocks |-> r.blocks]
    /\ pc' = "call_done"
    /\ UNCHANGED <<varsFilter, sel, vc, cfg>>

SpecCall == InitCall /\ [][CallTool]_vars

\* The name a client sees for a tool
Visible(t) == IF "display_name" \in DOMAIN t /\ t.display_name # Absent THEN t.display_name ELSE t.id

\* C7: call_tool raises exactly when no enabled tool has the visible name or
\* the arguments fail the tool's args model, and then no tool function is
\* invoked; otherwise the tool function is invoked and the result is a single
\* text block, which describes the first failure met among the connection, the
\* version check, the body and the backend request.
C7_CallToolErrors ==
    call.phase = "done" =>
        LET named == {i \in 1..Len(enabled) : Visible(enabled[i]) = call.name}
            t == enabled[CHOOSE i \in named : \A j \in named : i <= j]
            given == DOMAIN call.arguments
            invalid ==
                \/ \E k \in t.required : k \notin given
                \/ \E k \in given \cap DOMAIN t.fields :
                      \/ t.fields[k] = "str" /\ call.arguments[k] = "dict"
                      \/ t.fields[k] = "dict" /\ call.arguments[k] # "dict"
        IN  /\ call.raised <=> (named = {} \/ invalid)
            /\ call.raised => call.invoked = Absent /\ call.blocks = <<>>
            /\ ~call.raised =>
                  /\ call.invoked = t.id
                  /\ Len(call.blocks) = 1
                  /\ call.blocks[1].type = "text"
                  /\ LET bad_body == /\ t.function = "generated" /\ t.id # MsearchTool
                                      /\ body \in given /\ call.arguments[body] = "bad_json"
                         said == call.blocks[1].text[2]
                     IN  /\ call.failure = "connection_failure" => said = "connection_failure"
                         /\ call.failure = "version_incompatible" /\ t.function # "unchecked"
                               => said = "version_incompatible"
                         /\ call.failure \in {"none", "backend_error"} /\ bad_body
                               => said = "invalid_body"
                         /\ call.failure = "backend_error" /\ ~bad_body
                               => said = "backend_error"

\* C7 witness: a tool found by its display name, with valid arguments, whose
\* version check fails, returns one error text block
C7_Witness ==
    /\ call.phase = "done" /\ ~call.raised
    /\ call.name = list_indices
    /\ call.invoked = ListIndexTool
    /\ call.failure = "version_incompatible"
    /\ call.blocks = <<TextContent("Error listing indices: ", "version_incompatible")>>

(***************************************************************************)
(* The tool functions and their compatibility check (tools.py,             *)
(* tool_generator.tool_func)                                               *)
(***************************************************************************)

\* check_tool_compatibility(tool_name, args): get_opensearch_version, then
\* is_tool_compatible on the registry entry; nothing asks whether the backend
\* is serverless. An incompatible version, like a bound that does not parse,
\* raises.
check_tool_compatibility(tool, is_serverless, v) ==
    LET r == is_tool_compatible(v, tool)
    IN  [checked |-> TRUE,
         error |-> IF r.raised THEN "invalid_version"
                   ELSE IF ~r.value THEN "version_incompatible" ELSE "none"]

\* aggregation_tool is the one tool function that makes no compatibility check
makes_check(tool) == tool.id # AggregationTool

\* A tool function up to its result: the client is initialized (by
\* get_opensearch_version in the static tools, by tool_func itself in the
\* generated ones), the compatibility check is made, the request is sent.
\* Every exception ends in the function's except branch.
run_tool_function(tool, is_serverless, v, failure) ==
    IF ~makes_check(tool)
    THEN [checked |-> FALSE, error |-> failure]
    ELSE IF failure = "connection_failure"
    THEN [checked |-> FALSE, error |-> failure]
    ELSE LET c == check_tool_compatibility(tool, is_serverless, v)
         IN  [checked |-> c.checked, error |-> IF c.error # "none" THEN c.error ELSE failure]

\* The registry the tool functions look themselves up in
FullRegistry == generate_tools(StaticRegistry, <<ClusterDoc, CoreWriteDoc>>)

HandlerFailures == {"none", "connection_failure", "backend_error"}

InitHandler ==
    /\ pc = "handler"
    /\ IdleFilter
    /\ enabled = <<>>
    /\ call = NoCall
    /\ sel = NoCall
    /\ vc = NoCall
    /\ cfg = NoCall

\* One invocation of a tool function
RunToolFunction ==
    /\ pc = "handler"
    /\ \E i \in 1..Len(FullRegistry), is_serverless \in BOOLEAN, v \in ClusterVersions,
          failure \in HandlerFailures :
          \E r \in {run_tool_function(FullRegistry[i], is_serverless, v, failure)} :
              call' = [phase |-> "handled", tool |-> FullRegistry[i],
                       serverless |-> is_serverless, version |-> v, failure |-> failure,
                       checked |-> r.checked, error |-> r.error]
    /\ pc' = "handled"
    /\ UNCHANGED <<varsFilter, sel, vc, cfg>>

SpecHandler == InitHandler /\ [][RunToolFunction]_vars

\* C11: with a serverless backend, a tool function never runs the version
\* check and never ends in a version-incompatibility error.
C11_ServerlessHandlerSkipsCheck ==
    call.phase = "handled" /\ call.serverless =>
        ~call.checked /\ call.error # "version_incompatible"

(***************************************************************************)
(* get_tools called twice on the same registry, and on the registries of   *)
(* the tests (tool_filter.py, test_tool_filters.py)                        *)
(***************************************************************************)

custom_field == <<"c","u","s","t","o","m","_","f","i","e","l","d">>

\* The registry of the tests: the two tools of the fixture mock_tool_registry
\* and the tool of test_get_tools_single_mode_handles_missing_properties, whose
\* schema has no 'properties'
MockRegistry ==
    << Tool(ListIndexTool, GET, <<1, 0, 0>>, <<3, 0, 0>>,
            [type |-> "object", title |-> <<"L","i","s","t","I","n","d","e","x","A","r","g","s">>,
             properties |-> {opensearch_cluster_name, index, custom_field},
             required |-> {index}]),
       Tool(SearchIndexTool, <<"G","E","T",","," ","P","O","S","T">>, <<2, 0, 0>>, <<4, 0, 0>>,
            [type |-> "object", properties |-> {opensearch_cluster_name, <<"q","u","e","r","y">>}]),
       Tool(IndexMappingTool, GET, <<1, 0, 0>>, <<3, 0, 0>>,
            [type |-> "object", title |-> <<"L","i","s","t","I","n","d","e","x","A","r","g","s">>]) >>

RepeatRegistries == {FullRegistry, MockRegistry}

RepeatVersions == { <<0, 9, 0>>, <<2, 5, 1>> }

InitRepeat ==
    /\ pc = "generated"
    /\ TOOL_REGISTRY \in RepeatRegistries
    /\ generated = <<>>
    /\ spec_docs = <<>>
    /\ mode = "single"
    /\ config = NoFile
    /\ env = NoEnv
    /\ serverless = FALSE
    /\ version = <<0, 0, 0>>
    /\ registry0 = <<>>
    /\ after_write = <<>>
    /\ from_regex = <<>>
    /\ write_step = "not_reached"
    /\ filter_raised = FALSE
    /\ compat_calls = 0
    /\ backend_calls = 0
    /\ warnings = {}
    /\ enabled = <<>>
    /\ call = NoCall
    /\ sel = NoCall
    /\ vc = NoCall
    /\ cfg = NoCall

\* enabled_tools = get_tools(mode, config), the first call
GetToolsOnce ==
    /\ pc = "generated"
    /\ \/ \E e \in Environments, s \in BOOLEAN, v \in RepeatVersions :
             GetToolsEffect("single", NoFile, e, s, v)
       \/ \E f \in PolicyFiles, s \in BOOLEAN, v \in RepeatVersions :
             GetToolsEffect("single", f, NoEnv, s, v)
       \/ \E s \in BOOLEAN, v \in RepeatVersions :
             GetToolsEffect("multi", BusyFile, NoEnv, s, v)

\* get_tools(mode, config) once more: the same mode, policy source and cluster,
\* on TOOL_REGISTRY as the first call left it. registry0 stays the registry
\* before the first call.
GetToolsAgain ==
    /\ pc \in {"filtered", "failed"}
    /\ \E r \in {get_tools(TOOL_REGISTRY, mode, config, env, serverless, version)} :
          /\ TOOL_REGISTRY' = r.registry
          /\ after_write' = r.after_write
          /\ from_regex' = r.from_regex
          /\ write_step' = r.write_step
          /\ filter_raised' = r.filter_raised
          /\ compat_calls' = r.compat_calls
          /\ backend_calls' = r.backend_calls
          /\ warnings' = r.warnings
          /\ enabled' = r.enabled
          /\ pc' = IF r.raised THEN "failed_again" ELSE "filtered_again"
    /\ UNCHANGED <<generated, spec_docs, mode, config, env, serverless, version, registry0, call, sel, vc, cfg>>

NextRepeat == GetToolsOnce \/ GetToolsAgain

SpecRepeat == InitRepeat /\ [][NextRepeat]_vars

\* C13: a second get_tools call with the same mode, policy source and cluster,
\* on the registry as the first call left it, returns the enabled set of the
\* first call: the same tools with the same schemas, and it fails only if the
\* first call failed.
C13_FilterIdempotent ==
    [][(pc \in {"filtered", "failed"} /\ pc' \in {"filtered_again", "failed_again"}) =>
          /\ enabled' = enabled
          /\ (pc' = "filtered_again") <=> (pc = "filtered")]_vars

\* C13 witness: a second call in single mode, after a first call that removed
\* tools from the registry and stripped the schemas of the others
C13_Witness ==
    /\ pc = "filtered_again" /\ mode = "single"
    /\ Len(TOOL_REGISTRY) < Len(registry0)
    /\ enabled # <<>>
    /\ Len(enabled) < Len(TOOL_REGISTRY)
    /\ \A i \in 1..Len(enabled) : ~AdvertisesBaseFields(enabled[i].input_schema)

\* C14: in single mode the schema of every enabled tool is the schema the
\* registry had for it, less the base fields among its properties: the other
\* properties, the required list and the other keys are the same, and a schema
\* without properties is returned as it is.
C14_BaseFieldsStripped ==
    (pc = "filtered" /\ mode = "single") =>
        \A i \in 1..Len(enabled) :
            LET new == enabled[i].input_schema
                old == lookup(registry0, enabled[i].id).input_schema
            IN  /\ DOMAIN new = DOMAIN old
                /\ \A k \in DOMAIN old \ {"properties"} : new[k] = old[k]
                /\ "properties" \in DOMAIN old =>
                      /\ new.properties \cap base_fields = {}
                      /\ new.properties = old.properties \ base_fields

\* C14 witness: the registry of the tests, filtered without error: a tool whose
\* schema has no properties, and a tool that keeps its other properties and its
\* required list
C14_Witness ==
    /\ pc = "filtered" /\ mode = "single"
    /\ \E i \in 1..Len(enabled) : "properties" \notin DOMAIN enabled[i].input_schema
    /\ \E i \in 1..Len(enabled) :
          /\ "properties" \in DOMAIN enabled[i].input_schema
          /\ enabled[i].input_schema.properties = {index, custom_field}
          /\ enabled[i].input_schema.required = {index}

(***************************************************************************)
(* Custom tool configuration (config.py)                                   *)
(*                                                                         *)
(* A tool of a registry is its id and its dict, a function from its keys   *)
(* to their values. A value is a text and the length len() gives for it.   *)
(***************************************************************************)

display_name == <<"d","i","s","p","l","a","y","_","n","a","m","e">>

description == <<"d","e","s","c","r","i","p","t","i","o","n">>

\* FIELD_ALIASES, in dict order
FIELD_ALIASES ==
    << [actual_field |-> display_name,
        aliases |-> <<<<"n","a","m","e">>, <<"d","i","s","p","l","a","y","N","a","m","e">>, <<"d","i","s","p","l","a","y","_","n","a","m","e">>, <<"c","u","s","t","o","m","N","a","m","e">>>>],
       [actual_field |-> description,
        aliases |-> <<<<"d","e","s","c","r","i","p","t","i","o","n">>, <<"d","e","s","c">>, <<"c","u","s","t","o","m","D","e","s","c","r","i","p","t","i","o","n">>>>] >>

\* _find_actual_field: the first field whose alias list holds field_alias, as
\* written ("field_alias in aliases"), or None
find_actual_field(field_alias) ==
    LET hits == {i \in 1..Len(FIELD_ALIASES) : Has(field_alias, FIELD_ALIASES[i].aliases)}
    IN  IF hits = {} THEN NoneValue
        ELSE FIELD_ALIASES[CHOOSE i \in hits : \A j \in hits : i <= j].actual_field

\* _get_all_aliases
get_all_aliases == concat([i \in 1..Len(FIELD_ALIASES) |-> FIELD_ALIASES[i].aliases])

Value(text, length) == [text |-> text, length |-> length]

ConfigTool(id, fields) == [id |-> id, fields |-> fields]

\* dict[key] = value on the dict of a tool
set_field(tool, key, value) ==
    [tool EXCEPT !.fields = [k \in DOMAIN tool.fields \union {key} |->
                                IF k = key THEN value ELSE tool.fields[k]]]

Triple(tool_id, field_alias, field_value) ==
    [tool_id |-> tool_id, field_alias |-> field_alias, field_value |-> field_value]

UnsupportedField(field_alias, tool_id) ==
    [kind |-> "unsupported_field", field_alias |-> field_alias, tool_id |-> tool_id]

LongDescription(field_alias, length) ==
    [kind |-> "long_description", field_alias |-> field_alias, length |-> length]

DescriptionLimit == 1024

\* A loop body that also warns of a tool that is not in the registry
apply_config_warning_of_tool(acc, c) ==
    LET actual_field == find_actual_field(c.field_alias)
    IN  IF ~has_key(acc.registry, c.tool_id) \/ actual_field = NoneValue
        THEN [acc EXCEPT !.warnings = Append(@, UnsupportedField(c.field_alias, c.tool_id))]
        ELSE [registry |-> [i \in 1..Len(acc.registry) |->
                               IF acc.registry[i].id = c.tool_id
                               THEN set_field(acc.registry[i], actual_field, c.field_value)
                               ELSE acc.registry[i]],
              warnings |-> acc.warnings]

\* The body of the loop of _apply_validated_configs for one triple: a tool that
\* is not in the registry: continue; an alias that resolves to None: a warning,
\* continue; a description beyond the limit: a warning; then the assignment
apply_config(acc, c) ==
    LET actual_field == find_actual_field(c.field_alias)
    IN  IF ~has_key(acc.registry, c.tool_id) THEN acc
        ELSE IF actual_field = NoneValue
        THEN [acc EXCEPT !.warnings = Append(@, UnsupportedField(c.field_alias, c.tool_id))]
        ELSE [registry |-> [i \in 1..Len(acc.registry) |->
                               IF acc.registry[i].id = c.tool_id
                               THEN set_field(acc.registry[i], actual_field, c.field_value)
                               ELSE acc.registry[i]],
              warnings |-> IF actual_field = description /\ c.field_value.length > DescriptionLimit
                           THEN Append(acc.warnings, LongDescription(c.field_alias, c.field_value.length))
                           ELSE acc.warnings]

\* _apply_validated_configs: the registry and the logging.warning records after
\* the triples have been applied in order
RECURSIVE apply_validated_configs(_, _)
apply_validated_configs(acc, configs) ==
    IF configs = <<>> THEN acc
    ELSE apply_validated_configs(apply_config(acc, Head(configs)), Tail(configs))

\* _load_config_from_file: one triple for each key of each tool of the 'tools'
\* map, tools and keys in the order of the file
load_config_from_file(config_from_file) ==
    concat([i \in 1..Len(config_from_file) |->
               [k \in 1..Len(config_from_file[i].custom_config) |->
                   Triple(config_from_file[i].tool_id,
                          config_from_file[i].custom_config[k].key,
                          config_from_file[i].custom_config[k].value)]])

\* \w of the pattern
is_word(s) == s # <<>> /\ \A i \in 1..Len(s) : s[i] \in Range(UpperChars) \union Range(LowerChars) \union {"_"}

startswith(s, prefix) == Len(s) >= Len(prefix) /\ SubSeq(s, 1, Len(prefix)) = prefix

\* re.match(rf'tool\.(\w+)\.({alias_pattern})', arg): the match starts at the
\* start of arg and need not reach its end; group 1 is the text between the
\* first two dots, group 2 the first alias of the alternation that the text after
\* the second dot starts with
match_cli(arg) ==
    LET dots == {i \in 1..Len(arg) : arg[i] = "."}
        after_tool == {i \in dots : i > 5}
        second == CHOOSE i \in after_tool : \A j \in after_tool : i <= j
        rest == SubSeq(arg, second + 1, Len(arg))
        all_aliases == get_all_aliases
        found == {k \in 1..Len(all_aliases) : startswith(rest, all_aliases[k])}
    IN  IF /\ startswith(arg, <<"t","o","o","l",".">>)
           /\ after_tool # {}
           /\ is_word(SubSeq(arg, 6, second - 1))
           /\ found # {}
        THEN [matched |-> TRUE,
              tool_id |-> SubSeq(arg, 6, second - 1),
              field_alias |-> all_aliases[CHOOSE k \in found : \A j \in found : k <= j]]
        ELSE [matched |-> FALSE]

\* _load_config_from_cli: one triple for each argument the pattern matches
RECURSIVE load_config_from_cli(_)
load_config_from_cli(cli_tool_overrides) ==
    IF cli_tool_overrides = <<>> THEN <<>>
    ELSE LET m == match_cli(Head(cli_tool_overrides).arg)
         IN  (IF m.matched
              THEN <<Triple(m.tool_id, m.field_alias, Head(cli_tool_overrides).value)>>
              ELSE <<>>)
             \o load_config_from_cli(Tail(cli_tool_overrides))

\* The configuration file behind config_file_path: no path, a file that cannot
\* be read or parsed, or a file and its 'tools' map
NoConfigFile == [given |-> FALSE, readable |-> FALSE, tools |-> <<>>]

UnreadableConfigFile == [given |-> TRUE, readable |-> FALSE, tools |-> <<>>]

ConfigFile(tools) == [given |-> TRUE, readable |-> TRUE, tools |-> tools]

\* config_from_file of apply_custom_tool_config: {} unless the file is given and
\* loads
config_from_file_of(file) == IF file.given /\ file.readable THEN file.tools ELSE <<>>

\* A copy that shares the dicts of its tools with the registry copied
shares_every_tool(tool_registry) == {tool_registry[i].id : i \in 1..Len(tool_registry)}

\* copy.deepcopy(tool_registry): the ids of the tools whose dict the copy shares
\* with tool_registry
deepcopy_shares(tool_registry) == {}

\* file_configs + cli_configs, the other way round
cli_configs_first(file_configs, cli_configs) == cli_configs \o file_configs

\* all_configs = file_configs + cli_configs
all_configs_of(file_configs, cli_configs) == file_configs \o cli_configs

\* apply_custom_tool_config: the registry returned, the registry passed as it is
\* after the call, the triples applied and the warnings logged
apply_custom_tool_config(tool_registry, file, cli_tool_overrides) ==
    LET shared == deepcopy_shares(tool_registry)
        file_configs == load_config_from_file(config_from_file_of(file))
        cli_configs == load_config_from_cli(cli_tool_overrides)
        all_configs == all_configs_of(file_configs, cli_configs)
        r == apply_validated_configs([registry |-> tool_registry, warnings |-> <<>>], all_configs)
    IN  [custom_registry |-> r.registry,
         tool_registry |-> [i \in 1..Len(tool_registry) |->
                               IF tool_registry[i].id \in shared
                               THEN r.registry[i] ELSE tool_registry[i]],
         file_configs |-> file_configs,
         cli_configs |-> cli_configs,
         warnings |-> r.warnings,
         error_logged |-> file.given /\ ~file.readable]

\* MOCK_TOOL_REGISTRY of the tests
other_field == <<"o","t","h","e","r","_","f","i","e","l","d">>

InvalidTool == <<"I","n","v","a","l","i","d","T","o","o","l">>

MOCK_TOOL_REGISTRY ==
    << ConfigTool(ListIndexTool,
                  [k \in {display_name, description, other_field} |->
                      Value(<<"original", ListIndexTool, k>>, 20)]),
       ConfigTool(SearchIndexTool,
                  [k \in {display_name, description} |->
                      Value(<<"original", SearchIndexTool, k>>, 20)]) >>

\* Keys an administrator may write under a tool of the file: aliases, an alias in
\* another letter case and a name that is no alias
FileKeys == { <<"n","a","m","e">>, <<"d","i","s","p","l","a","y","_","n","a","m","e">>, <<"d","e","s","c">>, <<"N","A","M","E">>, <<"i","n","v","a","l","i","d","_","f","i","e","l","d">> }

\* the value the file gives a key: a description beyond the limit for desc
FileValue(key) == Value(<<"yaml", key>>, IF key = <<"d","e","s","c">> THEN 1025 ELSE 16)

MaxFileKeys == 2

\* 'tools' maps: keys for ListIndexTool, with or without an entry for a tool that
\* is not in the registry
FileTools ==
    { <<[tool_id |-> ListIndexTool,
         custom_config |-> [k \in 1..Len(q) |-> [key |-> q[k], value |-> FileValue(q[k])]]]>>
      \o extra :
        q \in ListsUpTo(FileKeys, MaxFileKeys),
        extra \in { <<>>,
                    <<[tool_id |-> InvalidTool,
                       custom_config |-> <<[key |-> <<"n","a","m","e">>, value |-> FileValue(<<"n","a","m","e">>)]>>]>> } }

ConfigFiles == {NoConfigFile, UnreadableConfigFile} \union {ConfigFile(t) : t \in FileTools}

\* Keys of the command line: tool.ListIndexTool.name, .customName, .description,
\* an alias in another letter case, a name that is no alias, a name that starts
\* with an alias, a tool that is not in the registry, and another format
CliArgs ==
    { <<"t","o","o","l",".","L","i","s","t","I","n","d","e","x","T","o","o","l",".","n","a","m","e">>,
      <<"t","o","o","l",".","L","i","s","t","I","n","d","e","x","T","o","o","l",".","d","e","s","c","r","i","p","t","i","o","n">>,
      <<"t","o","o","l",".","L","i","s","t","I","n","d","e","x","T","o","o","l",".","D","i","s","p","l","a","y","N","a","m","e">>,
      <<"t","o","o","l",".","L","i","s","t","I","n","d","e","x","T","o","o","l",".","i","n","v","a","l","i","d","_","f","i","e","l","d">>,
      <<"t","o","o","l",".","L","i","s","t","I","n","d","e","x","T","o","o","l",".","n","a","m","e","_","e","x","t","r","a">>,
      <<"t","o","o","l",".","I","n","v","a","l","i","d","T","o","o","l",".","n","a","m","e">>,
      <<"i","n","v","a","l","i","d",".","f","o","r","m","a","t">> }

CliValue(arg) == Value(<<"cli", arg>>, 14)

MaxCliArgs == 2

CliOverrides ==
    { [k \in 1..Len(q) |-> [arg |-> q[k], value |-> CliValue(q[k])]] :
        q \in ListsUpTo(CliArgs, MaxCliArgs) }

InitConfig ==
    /\ pc = "config"
    /\ IdleFilter
    /\ enabled = <<>>
    /\ call = NoCall
    /\ sel = NoCall
    /\ vc = NoCall
    /\ cfg \in { [phase |-> "given", tool_registry |-> MOCK_TOOL_REGISTRY,
                  file |-> f, cli_tool_overrides |-> c] :
                 f \in ConfigFiles, c \in CliOverrides }

\* customized_registry = apply_custom_tool_config(...)
ApplyCustomToolConfig ==
    /\ pc = "config"
    /\ cfg.phase = "given"
    /\ \E r \in {apply_custom_tool_config(cfg.tool_registry, cfg.file, cfg.cli_tool_overrides)} :
          cfg' = [phase |-> "applied",
                  registry_before |-> cfg.tool_registry,
                  tool_registry |-> r.tool_registry,
                  file |-> cfg.file,
                  cli_tool_overrides |-> cfg.cli_tool_overrides,
                  file_configs |-> r.file_configs,
                  cli_configs |-> r.cli_configs,
                  custom_registry |-> r.custom_registry,
                  warnings |-> r.warnings,
                  error_logged |-> r.error_logged]
    /\ pc' = "configured"
    /\ UNCHANGED <<varsFilter, call, sel, vc>>

SpecConfig == InitConfig /\ [][ApplyCustomToolConfig]_vars

\* The triples of configs for a tool whose alias resolves to a field, in order
triples_for(configs, tool_id, actual_field) ==
    SelectSeq(configs, LAMBDA c : c.tool_id = tool_id /\ find_actual_field(c.field_alias) = actual_field)

Last(q) == q[Len(q)]

Applied == pc = "configured" /\ cfg.phase = "applied"

\* C17: for every tool and field (display_name, description), if a triple of the
\* command line sets the field, through any alias, the returned registry has the
\* value of the command line, whatever the file sets; if only triples of the
\* file set it, the returned registry has the value of the file.
C17_CliOverridesFile ==
    Applied =>
        \A i \in 1..Len(cfg.custom_registry) : \A f \in {display_name, description} :
            LET t == cfg.custom_registry[i]
                from_file == triples_for(cfg.file_configs, t.id, f)
                from_cli == triples_for(cfg.cli_configs, t.id, f)
            IN  /\ from_cli # <<>> => t.fields[f] = Last(from_cli).field_value
                /\ from_cli = <<>> /\ from_file # <<>> => t.fields[f] = Last(from_file).field_value

\* C17 witness: the file sets the display name through display_name and a too
\* long description through desc, the command line sets the display name through
\* name: the display name is that of the command line, the description that of
\* the file
C17_Witness ==
    /\ Applied
    /\ cfg.file_configs = <<Triple(ListIndexTool, <<"d","i","s","p","l","a","y","_","n","a","m","e">>, FileValue(<<"d","i","s","p","l","a","y","_","n","a","m","e">>)),
                            Triple(ListIndexTool, <<"d","e","s","c">>, FileValue(<<"d","e","s","c">>))>>
    /\ cfg.cli_configs = <<Triple(ListIndexTool, <<"n","a","m","e">>, CliValue(<<"t","o","o","l",".","L","i","s","t","I","n","d","e","x","T","o","o","l",".","n","a","m","e">>))>>
    /\ cfg.custom_registry[1].fields[display_name] = CliValue(<<"t","o","o","l",".","L","i","s","t","I","n","d","e","x","T","o","o","l",".","n","a","m","e">>)
    /\ cfg.custom_registry[1].fields[description] = FileValue(<<"d","e","s","c">>)

\* C18: apply_custom_tool_config leaves the registry passed to it as it was:
\* every tool has the fields and values it had before the call, whatever the
\* file and the command line say.
C18_ArgumentNotMutated ==
    Applied => cfg.tool_registry = cfg.registry_before

\* C18 witness: overrides of the file and of the command line were applied to
\* the returned registry, and the registry passed is as before
C18_Witness ==
    /\ Applied
    /\ cfg.file_configs # <<>> /\ cfg.cli_configs # <<>>
    /\ cfg.custom_registry[1].fields[display_name] # cfg.registry_before[1].fields[display_name]
    /\ cfg.custom_registry[1].fields[description] # cfg.registry_before[1].fields[description]
    /\ cfg.tool_registry = cfg.registry_before

\* The alias table read without regard to letter case
resolves_ignoring_case(text) ==
    LET hits == {i \in 1..Len(FIELD_ALIASES) :
                    \E k \in 1..Len(FIELD_ALIASES[i].aliases) :
                        lower(FIELD_ALIASES[i].aliases[k]) = lower(text)}
    IN  IF hits = {} THEN NoneValue ELSE FIELD_ALIASES[CHOOSE i \in hits : TRUE].actual_field

\* The field name of an argument tool.<id>.<field name>
cli_field_text(arg) ==
    LET after_tool == {i \in 1..Len(arg) : arg[i] = "." /\ i > 5}
    IN  SubSeq(arg, (CHOOSE i \in after_tool : \A j \in after_tool : i <= j) + 1, Len(arg))

\* C19: every field name of the file and of the command line resolves as the
\* alias table read without regard to letter case says: the seven aliases in any
\* letter case to their field, any other name to nothing.
C19_AliasesIgnoreCase ==
    Applied =>
        /\ \A k \in 1..Len(cfg.file_configs) :
              find_actual_field(cfg.file_configs[k].field_alias)
                  = resolves_ignoring_case(cfg.file_configs[k].field_alias)
        /\ \A k \in 1..Len(cfg.cli_tool_overrides) :
              LET arg == cfg.cli_tool_overrides[k].arg
                  m == match_cli(arg)
              IN  startswith(arg, <<"t","o","o","l",".">>) =>
                      (IF m.matched THEN find_actual_field(m.field_alias) ELSE NoneValue)
                          = resolves_ignoring_case(cli_field_text(arg))

\* The number of entries of a list that satisfy a test
count(q, test(_)) == Len(SelectSeq(q, test))

\* C20: a triple for a tool that is not in the registry gives no warning and no
\* entry; a triple for a tool of the registry whose alias resolves to nothing
\* gives exactly one warning, naming the alias and the tool, and no field; every
\* other triple is applied: each field has the value of the last triple that
\* sets it, or the value it had.
C20_UnknownToolAndAlias ==
    Applied =>
        LET all == cfg.file_configs \o cfg.cli_configs
            before == cfg.registry_before
            after == cfg.custom_registry
            known(id) == has_key(before, id)
        IN  /\ keys(after) = keys(before)
            /\ \A k \in 1..Len(all) :
                  LET c == all[k]
                  IN  count(cfg.warnings,
                            LAMBDA w : /\ w.kind = "unsupported_field"
                                       /\ w.field_alias = c.field_alias
                                       /\ w.tool_id = c.tool_id)
                      = count(all, LAMBDA d : /\ d.tool_id = c.tool_id
                                              /\ d.field_alias = c.field_alias
                                              /\ known(d.tool_id)
                                              /\ find_actual_field(d.field_alias) = NoneValue)
            /\ count(cfg.warnings, LAMBDA w : w.kind = "unsupported_field")
                  = count(all, LAMBDA d : known(d.tool_id) /\ find_actual_field(d.field_alias) = NoneValue)
            /\ \A i \in 1..Len(after) :
                  /\ DOMAIN after[i].fields = DOMAIN before[i].fields
                  /\ \A f \in DOMAIN after[i].fields :
                        LET setting == triples_for(all, after[i].id, f)
                        IN  after[i].fields[f] = IF setting = <<>> THEN before[i].fields[f]
                                                 ELSE Last(setting).field_value

\* C20 witness: the file names a field that is no alias and an alias for a tool
\* of the registry, and an alias for a tool that is not in it: one warning, and
\* the alias applied
C20_Witness ==
    /\ Applied
    /\ cfg.file_configs = <<Triple(ListIndexTool, <<"i","n","v","a","l","i","d","_","f","i","e","l","d">>, FileValue(<<"i","n","v","a","l","i","d","_","f","i","e","l","d">>)),
                            Triple(ListIndexTool, <<"n","a","m","e">>, FileValue(<<"n","a","m","e">>)),
                            Triple(InvalidTool, <<"n","a","m","e">>, FileValue(<<"n","a","m","e">>))>>
    /\ cfg.cli_configs = <<>>
    /\ cfg.warnings = <<UnsupportedField(<<"i","n","v","a","l","i","d","_","f","i","e","l","d">>, ListIndexTool)>>
    /\ cfg.custom_registry[1].fields[display_name] = FileValue(<<"n","a","m","e">>)
    /\ <<"i","n","v","a","l","i","d","_","f","i","e","l","d">> \notin DOMAIN cfg.custom_registry[1].fields

(***************************************************************************)
(* process_body (tool_generator.py) and the json module it calls           *)
(*                                                                         *)
(* A text is a sequence of characters. A JSON value is a string [str], an  *)
(* object [obj], the list of its <<key, value>> members, or an array       *)
(* [arr], the list of its elements.                                        *)
(***************************************************************************)

Str(chars) == [str |-> chars]

Obj(members) == [obj |-> members]

Arr(elements) == [arr |-> elements]

\* An encoder that writes the characters of a string as they are
escape_nothing(chars) == chars

\* The characters json.dumps writes for the characters of a string
escape(chars) ==
    concat([i \in 1..Len(chars) |->
               IF chars[i] = "\n" THEN <<"\\", "n">>
               ELSE IF chars[i] \in {"\"", "\\"} THEN <<"\\", chars[i]>>
               ELSE <<chars[i]>>])

quoted(chars) == <<"\"">> \o escape(chars) \o <<"\"">>

\* json.dumps(value) with the default separators ", " and ": "
RECURSIVE json_dumps(_)
json_dumps(value) ==
    IF "str" \in DOMAIN value THEN quoted(value.str)
    ELSE IF "obj" \in DOMAIN value
    THEN <<"{">>
         \o join(<<",", " ">>,
                 [i \in 1..Len(value.obj) |->
                     quoted(value.obj[i][1]) \o <<":", " ">> \o json_dumps(value.obj[i][2])])
         \o <<"}">>
    ELSE <<"[">>
         \o join(<<",", " ">>, [i \in 1..Len(value.arr) |-> json_dumps(value.arr[i])])
         \o <<"]">>

JSONDecodeError == [ok |-> FALSE]

Decoded(value, next) == [ok |-> TRUE, value |-> value, next |-> next]

\* the white space json.loads skips between tokens
RECURSIVE skip_ws(_, _)
skip_ws(text, i) ==
    IF i <= Len(text) /\ text[i] \in {" ", "\n"} THEN skip_ws(text, i + 1) ELSE i

\* The characters of a JSON string from position i, after its opening quote, up
\* to its closing quote: the escapes \n, \" and \\ are decoded, a line break in
\* the string is an error
RECURSIVE scan_string(_, _, _)
scan_string(text, i, chars) ==
    IF i > Len(text) THEN JSONDecodeError
    ELSE IF text[i] = "\"" THEN Decoded(chars, i + 1)
    ELSE IF text[i] = "\n" THEN JSONDecodeError
    ELSE IF text[i] = "\\"
    THEN IF i + 1 > Len(text) THEN JSONDecodeError
         ELSE IF text[i + 1] = "n" THEN scan_string(text, i + 2, Append(chars, "\n"))
         ELSE IF text[i + 1] \in {"\"", "\\"} THEN scan_string(text, i + 2, Append(chars, text[i + 1]))
         ELSE JSONDecodeError
    ELSE scan_string(text, i + 1, Append(chars, text[i]))

\* The decoder of json.loads: a value from position i; the members of an object
\* and the elements of an array after those already read
RECURSIVE parse_value(_, _)
RECURSIVE parse_members(_, _, _)
RECURSIVE parse_elements(_, _, _)
parse_value(text, from) ==
    LET i == skip_ws(text, from)
    IN  IF i > Len(text) THEN JSONDecodeError
        ELSE IF text[i] = "\""
        THEN LET r == scan_string(text, i + 1, <<>>)
             IN  IF r.ok THEN Decoded(Str(r.value), r.next) ELSE JSONDecodeError
        ELSE IF text[i] = "{"
        THEN LET j == skip_ws(text, i + 1)
             IN  IF j <= Len(text) /\ text[j] = "}" THEN Decoded(Obj(<<>>), j + 1)
                 ELSE parse_members(text, j, <<>>)
        ELSE IF text[i] = "["
        THEN LET j == skip_ws(text, i + 1)
             IN  IF j <= Len(text) /\ text[j] = "]" THEN Decoded(Arr(<<>>), j + 1)
                 ELSE parse_elements(text, j, <<>>)
        ELSE JSONDecodeError

parse_members(text, from, members) ==
    LET i == skip_ws(text, from)
    IN  IF i > Len(text) \/ text[i] # "\"" THEN JSONDecodeError
        ELSE LET k == scan_string(text, i + 1, <<>>)
             IN  IF ~k.ok THEN JSONDecodeError
                 ELSE LET c == skip_ws(text, k.next)
                      IN  IF c > Len(text) \/ text[c] # ":" THEN JSONDecodeError
                          ELSE LET v == parse_value(text, c + 1)
                               IN  IF ~v.ok THEN JSONDecodeError
                                   ELSE LET d == skip_ws(text, v.next)
                                            read == Append(members, <<k.value, v.value>>)
                                        IN  IF d > Len(text) THEN JSONDecodeError
                                            ELSE IF text[d] = "," THEN parse_members(text, d + 1, read)
                                            ELSE IF text[d] = "}" THEN Decoded(Obj(read), d + 1)
                                            ELSE JSONDecodeError

parse_elements(text, from, elements) ==
    LET v == parse_value(text, from)
    IN  IF ~v.ok THEN JSONDecodeError
        ELSE LET d == skip_ws(text, v.next)
                 read == Append(elements, v.value)
             IN  IF d > Len(text) THEN JSONDecodeError
                 ELSE IF text[d] = "," THEN parse_elements(text, d + 1, read)
                 ELSE IF text[d] = "]" THEN Decoded(Arr(read), d + 1)
                 ELSE JSONDecodeError

\* json.loads(text): one value, and nothing but white space after it
json_loads(text) ==
    LET v == parse_value(text, 1)
    IN  IF v.ok /\ skip_ws(text, v.next) = Len(text) + 1 THEN v ELSE JSONDecodeError

\* A body as tool_func hands it over: None, a str, a list, a dict
NoBody == [kind |-> "None"]

StrBody(text) == [kind |-> "str", text |-> text]

ListBody(items) == [kind |-> "list", items |-> items]

DictBody(value) == [kind |-> "dict", value |-> value]

\* What process_body returns: None, a str, or a parsed or passed value; or the
\* ValueError it raises
ReturnedNone == [raised |-> FALSE, kind |-> "None"]

ReturnedStr(text) == [raised |-> FALSE, kind |-> "str", text |-> text]

ReturnedValue(value) == [raised |-> FALSE, kind |-> "value", value |-> value]

RaisedValueError == [raised |-> TRUE, kind |-> "ValueError"]

\* ''.join(json.dumps(item) + '\n' for item in items)
ndjson(items) == concat([i \in 1..Len(items) |-> json_dumps(items[i]) \o <<"\n">>])

\* body.strip(): white space off both ends
RECURSIVE strip_ws(_)
strip_ws(text) ==
    IF text = <<>> THEN text
    ELSE IF Head(text) \in {" ", "\n"} THEN strip_ws(Tail(text))
    ELSE IF text[Len(text)] \in {" ", "\n"} THEN strip_ws(SubSeq(text, 1, Len(text) - 1))
    ELSE text

endswith_newline(text) == text # <<>> /\ text[Len(text)] = "\n"

\* process_body(body, tool_name)
process_body(given, tool_name) ==
    IF given.kind = "None" THEN ReturnedNone
    ELSE IF given.kind = "str"
    THEN LET parsed == json_loads(given.text)
         IN  IF tool_name = MsearchTool
             THEN IF parsed.ok /\ "arr" \in DOMAIN parsed.value
                  THEN ReturnedStr(ndjson(parsed.value.arr))
                  ELSE ReturnedStr(IF endswith_newline(given.text) THEN given.text
                                   ELSE given.text \o <<"\n">>)
             ELSE IF strip_ws(given.text) # <<>>
             THEN IF parsed.ok THEN ReturnedValue(parsed.value) ELSE RaisedValueError
             ELSE ReturnedNone
    ELSE IF given.kind = "list" /\ tool_name = MsearchTool
    THEN ReturnedStr(ndjson(given.items))
    ELSE IF given.kind = "list" THEN ReturnedValue(Arr(given.items))
    ELSE ReturnedValue(given.value)

\* JSON objects a caller may send: empty, one member, a member whose text has a
\* line break and a quote, a nested object
Items ==
    { Obj(<<>>),
      Obj(<< <<<<"i">>, Str(<<"t">>)>> >>),
      Obj(<< <<<<"q">>, Str(<<"l", "\n", "\"">>)>> >>),
      Obj(<< <<<<"q">>, Obj(<< <<<<"m">>, Obj(<<>>)>> >>)>>, <<<<"s">>, Str(<<>>)>> >>) }

MaxItems == 2

ItemLists == SeqsUpTo(Items, MaxItems)

\* Texts that are no JSON array: NDJSON with and without its last line break, one
\* object, an array written over two lines, the empty text, white space, and
\* text that is no JSON
OtherTexts ==
    { <<"{", "}", "\n", "{", "}">>,
      <<"{", "}", "\n", "{", "}", "\n">>,
      <<"{", "}">>,
      <<"[", "{", "}", ",", "\n", "{", "}", "]">>,
      <<>>,
      <<" ">>,
      <<"{", "x">> }

Bodies ==
    {NoBody, DictBody(Obj(<<>>))}
    \union {ListBody(q) : q \in ItemLists}
    \union {StrBody(json_dumps(Arr(q))) : q \in ItemLists}
    \union {StrBody(t) : t \in OtherTexts}

BodyTools == {MsearchTool, CountTool}

InitBody ==
    /\ pc = "body"
    /\ IdleFilter
    /\ enabled = <<>>
    /\ call \in {[phase |-> "body", given |-> b, tool_name |-> t] : b \in Bodies, t \in BodyTools}
    /\ sel = NoCall
    /\ vc = NoCall
    /\ cfg = NoCall

\* body = process_body(params_dict.pop('body', None), tool_name)
ProcessBody ==
    /\ pc = "body"
    /\ call' = [phase |-> "processed", given |-> call.given, tool_name |-> call.tool_name,
                returned |-> process_body(call.given, call.tool_name)]
    /\ pc' = "processed"
    /\ UNCHANGED <<varsFilter, sel, vc, cfg>>

SpecBody == InitBody /\ [][ProcessBody]_vars

Processed == pc = "processed" /\ call.phase = "processed"

\* The lines of a text: what stands before each of its line breaks
RECURSIVE lines_of(_, _)
lines_of(text, line) ==
    IF text = <<>> THEN <<>>
    ELSE IF Head(text) = "\n" THEN <<line>> \o lines_of(Tail(text), <<>>)
    ELSE lines_of(Tail(text), Append(line, Head(text)))

\* The list of JSON objects a body stands for: the list itself, or the array a
\* text is the JSON of
is_object_list(items) == \A i \in 1..Len(items) : "obj" \in DOMAIN items[i]

stands_for_list(given) ==
    \/ given.kind = "list" /\ is_object_list(given.items)
    \/ /\ given.kind = "str"
       /\ json_loads(given.text).ok
       /\ "arr" \in DOMAIN json_loads(given.text).value
       /\ is_object_list(json_loads(given.text).value.arr)

items_of(given) == IF given.kind = "list" THEN given.items ELSE json_loads(given.text).value.arr

\* C21: for MsearchTool, a list of JSON objects, given as a list or as the text
\* of a JSON array, becomes a text of as many lines as the list has items, each
\* ended by a line break; the i-th line parses as JSON to the i-th item; and the
\* list and the text of its JSON array give the same text.
C21_MsearchRoundTrip ==
    (Processed /\ call.tool_name = MsearchTool /\ stands_for_list(call.given)) =>
        LET items == items_of(call.given)
            out == call.returned
        IN  /\ ~out.raised /\ out.kind = "str"
            /\ out.text = <<>> \/ endswith_newline(out.text)
            /\ LET lines == lines_of(out.text, <<>>)
               IN  /\ Len(lines) = Len(items)
                   /\ \A i \in 1..Len(items) :
                         /\ json_loads(lines[i]).ok
                         /\ json_loads(lines[i]).value = items[i]
            /\ out = process_body(ListBody(items), MsearchTool)
            /\ out = process_body(StrBody(json_dumps(Arr(items))), MsearchTool)

\* C21 witness: the text of a JSON array of two objects, one with a line break
\* and a quote in a string, has become two lines
C21_Witness ==
    /\ Processed /\ call.tool_name = MsearchTool
    /\ call.given.kind = "str"
    /\ stands_for_list(call.given)
    /\ Len(items_of(call.given)) = 2
    /\ items_of(call.given)[2] = Obj(<< <<<<"q">>, Str(<<"l", "\n", "\"">>)>> >>)
    /\ Len(lines_of(call.returned.text, <<>>)) = 2

\* C27: for MsearchTool, the body made from a text or a list is a text that ends
\* with one line break and no second one before it.
C27_OneTrailingNewline ==
    (Processed /\ call.tool_name = MsearchTool /\ call.given.kind \in {"str", "list"}) =>
        /\ ~call.returned.raised /\ call.returned.kind = "str"
        /\ endswith_newline(call.returned.text)
        /\ Len(call.returned.text) > 1 =>
              call.returned.text[Len(call.returned.text) - 1] # "\n"

(***************************************************************************)
(* aggregation_search (opensearch/helper.py)                               *)
(*                                                                         *)
(* A query is None, a str, or a dict: a function from its keys to the      *)
(* values the caller gave them.                                            *)
(***************************************************************************)

\* The four keys aggregation_search sets and what it sets them to
optimizations ==
    [k \in {"size", "_source", "track_total_hits", "timeout"} |->
        CASE k = "size" -> "0"
          [] k = "_source" -> "False"
          [] k = "track_total_hits" -> "False"
          [] k = "timeout" -> "30s"]

\* An aggregation_search that sets the four keys only where the caller gave none
\* (optimized_query.setdefault(...))
aggregation_search_setdefault(index_name, query) ==
    [index |-> index_name,
     body |-> IF query.kind = "dict"
              THEN DictBody([k \in DOMAIN query.value \union DOMAIN optimizations |->
                                IF k \in DOMAIN query.value THEN query.value[k]
                                ELSE optimizations[k]])
              ELSE query,
     request_cache |-> TRUE,
     allow_partial_search_results |-> FALSE]

\* aggregation_search up to client.search(**search_params): a dict is copied
\* and the four keys are set on the copy; any other query is the body as it is
aggregation_search(index_name, query) ==
    [index |-> index_name,
     body |-> IF query.kind = "dict"
              THEN DictBody([k \in DOMAIN query.value \union DOMAIN optimizations |->
                                IF k \in DOMAIN optimizations THEN optimizations[k]
                                ELSE query.value[k]])
              ELSE query,
     request_cache |-> TRUE,
     allow_partial_search_results |-> FALSE]

\* What a caller may write in a query: AggregationArgs.query is a
\* dict[str, Any], and the tests pass dicts. The keys of the optimizations
\* with values of the caller's own, and aggs and query
CallerValue(k) ==
    CASE k = "size" -> "10"
      [] k = "_source" -> "True"
      [] k = "track_total_hits" -> "True"
      [] k = "timeout" -> "5m"
      [] OTHER -> <<"caller", k>>

Queries ==
    {DictBody([k \in K |-> CallerValue(k)]) :
        K \in SUBSET {"size", "_source", "track_total_hits", "timeout", "aggs", "query"}}

InitAggregation ==
    /\ pc = "aggregation"
    /\ IdleFilter
    /\ enabled = <<>>
    /\ call \in {[phase |-> "aggregation", query |-> q] : q \in Queries}
    /\ sel = NoCall
    /\ vc = NoCall
    /\ cfg = NoCall

\* aggregation_search(opensearch_url, index, query)
AggregationSearch ==
    /\ pc = "aggregation"
    /\ call' = [phase |-> "searched", query |-> call.query,
                search_params |-> aggregation_search(index, call.query)]
    /\ pc' = "searched"
    /\ UNCHANGED <<varsFilter, sel, vc, cfg>>

SpecAggregation == InitAggregation /\ [][AggregationSearch]_vars

Searched == pc = "searched" /\ call.phase = "searched"

\* The body sent is a dict with the four optimizations and, for every other
\* key, what the caller gave
Optimized(query, sent) ==
    /\ sent.kind = "dict"
    /\ \A k \in DOMAIN optimizations : k \in DOMAIN sent.value /\ sent.value[k] = optimizations[k]
    /\ query.kind = "dict" =>
          /\ DOMAIN sent.value = DOMAIN query.value \union DOMAIN optimizations
          /\ \A k \in DOMAIN query.value \ DOMAIN optimizations : sent.value[k] = query.value[k]

query == <<"q","u","e","r","y">>

\* The args model of a tool: the type of each field and the fields without a
\* default. The static tools have the classes of tool_params.py. A generated
\* tool has create_model(f'{base_name}Args', **field_definitions) with
\* field_definitions[name] = (Any if name == 'body' else str, info.get('default')):
\* every field is given a default, so none is required.
args_model_of(tool) ==
    CASE tool.id = ListIndexTool ->
            [fields |-> [k \in base_fields |-> "str"], required |-> {}]
      [] tool.id \in {IndexMappingTool, GetShardsTool} ->
            [fields |-> [k \in base_fields \union {index} |-> "str"], required |-> {index}]
      [] tool.id = SearchIndexTool ->
            [fields |-> [k \in base_fields \union {index, query} |->
                            IF k = query THEN "Any" ELSE "str"],
             required |-> {index, query}]
      [] tool.id = AggregationTool ->
            [fields |-> [k \in base_fields \union {index, aggs, query} |->
                            IF k \in {aggs, query} THEN "dict" ELSE "str"],
             required |-> {index, aggs}]
      [] OTHER ->
            [fields |-> [k \in tool.input_schema.properties |->
                            IF k = body THEN "Any" ELSE "str"],
             required |-> {}]

has_type(value, type) == type = "Any" \/ value.kind = type

\* args_model(**arguments): every required field is given and every given field
\* has the type of its field; a key that is no field is ignored
validates(model, arguments) ==
    /\ model.required \subseteq DOMAIN arguments
    /\ \A k \in DOMAIN arguments \cap DOMAIN model.fields :
          has_type(arguments[k], model.fields[k])

\* params.model_dump(): every field, with None for a field not given
model_dump(model, arguments) ==
    [k \in DOMAIN model.fields |-> IF k \in DOMAIN arguments THEN arguments[k] ELSE NoBody]

\* str(value) of a parameter, and the parameter as select_endpoint compares it
\* with None, '', {} and []
str_of(value) ==
    IF value.kind = "None" THEN <<"N","o","n","e">>
    ELSE IF value.kind = "str" THEN value.text
    ELSE <<"{","}">>

as_param(value) ==
    IF value.kind = "None" THEN NoneValue
    ELSE IF value.kind = "str" THEN value.text
    ELSE <<"value">>

\* The endpoints tool_func captured: those of the tool's operation group
captured_endpoints(tool_id) ==
    LET group == CHOOSE g \in SUPPORTED_OPERATIONS : tool_name_of(g) = tool_id
    IN  endpoints_of(ClusterDoc.endpoints \o CoreWriteDoc.endpoints, group)

\* formatted_path: each segment '{name}' of the selected path whose name is a
\* path parameter of the group and a key of params_dict is replaced by
\* str(params_dict[name]). Each segment is kept with the name it stems from.
formatted_path(path, path_parameters, params_dict) ==
    [i \in 1..Len(path) |->
        IF /\ is_placeholder(path[i])
           /\ param_name(path[i]) \in path_parameters
           /\ param_name(path[i]) \in DOMAIN params_dict
        THEN [text |-> str_of(params_dict[param_name(path[i])]), stems_from |-> param_name(path[i])]
        ELSE [text |-> path[i], stems_from |-> Absent]]

\* A transport that tries a failed request once more
perform_request_twice(request, failure) ==
    IF failure = "backend_error" THEN <<request, request>> ELSE <<request>>

\* request_client.transport.perform_request(...): the requests sent
perform_request(request, failure) == <<request>>

\* tool_func(params): the client is initialized, the compatibility check is made,
\* the body is processed, the endpoint is selected, the path is formatted and the
\* request is sent. An exception of the first step returns its own error block;
\* any later exception ends in the outer except branch.
tool_func(tool, arguments, failure) ==
    LET model == args_model_of(tool)
        params_dict == model_dump(model, arguments)
        endpoints == captured_endpoints(tool.id)
        path_parameters == UNION {Range(path_params(endpoints[i].path)) : i \in 1..Len(endpoints)}
        given_body == IF body \in DOMAIN params_dict THEN params_dict[body] ELSE NoBody
        processed == process_body(given_body, tool.id)
        rest == [k \in DOMAIN params_dict \ (base_fields \union {body}) |-> as_param(params_dict[k])]
        selected_endpoint == select_endpoint(endpoints, rest)
        request == [method |-> upper(selected_endpoint.method),
                    path |-> formatted_path(selected_endpoint.path, path_parameters, params_dict),
                    params |-> DOMAIN rest \ path_parameters,
                    body |-> processed]
    IN  IF failure = "connection_failure"
        THEN [checks |-> 0, requests |-> <<>>,
              blocks |-> <<TextContent("Error initializing OpenSearch client: ", failure)>>]
        ELSE IF failure = "version_incompatible"
        THEN [checks |-> 1, requests |-> <<>>, blocks |-> <<TextContent("Error: ", failure)>>]
        ELSE IF processed.raised
        THEN [checks |-> 1, requests |-> <<>>, blocks |-> <<TextContent("Error: ", "invalid_body")>>]
        ELSE [checks |-> 1, requests |-> perform_request(request, failure),
              blocks |-> IF failure = "backend_error"
                         THEN <<TextContent("Error: ", failure)>>
                         ELSE <<TextContent("", "result")>>]

is_generated(tool) == \E g \in SUPPORTED_OPERATIONS : tool_name_of(g) = tool.id

\* Arguments a client may send: index as '' or a name, a body that is a dict, a
\* JSON text or a text that is no JSON, aggs and query as dicts
ArgumentValues(k) ==
    IF k = index THEN {StrBody(<<>>), StrBody(<<"l", "o", "g", "s">>)}
    ELSE IF k = body THEN {DictBody(Obj(<<>>)), StrBody(<<"{", "}">>), StrBody(<<"{", "x">>)}
    ELSE {DictBody(Obj(<<>>))}

ArgumentSets ==
    UNION { {a \in [K -> UNION {ArgumentValues(k) : k \in K}] :
                \A k \in K : a[k] \in ArgumentValues(k)} :
            K \in SUBSET {index, body, aggs, query} }

ToolFuncFailures == {"none", "connection_failure", "version_incompatible", "backend_error"}

InitInvoke ==
    /\ pc = "invoke"
    /\ IdleFilter
    /\ enabled = FullRegistry
    /\ call \in {[phase |-> "invoke", tool |-> FullRegistry[i], arguments |-> a, failure |-> f] :
                    i \in 1..Len(FullRegistry), a \in ArgumentSets, f \in ToolFuncFailures}
    /\ sel = NoCall
    /\ vc = NoCall
    /\ cfg = NoCall

\* parsed = tool['args_model'](**arguments), then, for a generated tool,
\* tool['function'](parsed)
InvokeTool ==
    /\ pc = "invoke"
    /\ \E accepted \in {validates(args_model_of(call.tool), call.arguments)} :
          call' = [phase |-> "invoked", tool |-> call.tool, arguments |-> call.arguments,
                   failure |-> call.failure, accepted |-> accepted,
                   ran |-> accepted /\ is_generated(call.tool),
                   result |-> IF accepted /\ is_generated(call.tool)
                              THEN tool_func(call.tool, call.arguments, call.failure)
                              ELSE [checks |-> 0, requests |-> <<>>, blocks |-> <<>>]]
    /\ pc' = "invoked"
    /\ UNCHANGED <<varsFilter, sel, vc, cfg>>

SpecInvoke == InitInvoke /\ [][InvokeTool]_vars

Invoked == pc = "invoked" /\ call.phase = "invoked"

\* The body the args model keeps cannot be processed
body_fails(tool, arguments) ==
    /\ body \in DOMAIN arguments \cap DOMAIN args_model_of(tool).fields
    /\ process_body(arguments[body], tool.id).raised

\* C23: an invocation of a generated tool sends at most one request: exactly one
\* if the connection, the compatibility check and the body all succeed, however
\* the request ends; a connection failure gives an error block with no
\* compatibility check and no request; a body that cannot be processed gives an
\* error block and no request.
C23_AtMostOneRequest ==
    (Invoked /\ call.ran) =>
        LET r == call.result
            fine == /\ call.failure \notin {"connection_failure", "version_incompatible"}
                    /\ ~body_fails(call.tool, call.arguments)
        IN  /\ Len(r.requests) <= 1
            /\ Len(r.requests) = 1 <=> fine
            /\ Len(r.blocks) = 1 /\ r.blocks[1].type = "text"
            /\ call.failure = "connection_failure" =>
                  /\ r.checks = 0 /\ r.requests = <<>>
                  /\ r.blocks[1].text[1] = "Error initializing OpenSearch client: "
            /\ (call.failure # "connection_failure" /\ body_fails(call.tool, call.arguments)) =>
                  /\ r.requests = <<>>
                  /\ r.blocks[1].text[1] = "Error: "

\* C23 witness: a request that the backend fails is sent once and reported
C23_Witness ==
    /\ Invoked /\ call.ran
    /\ call.tool.id = ExplainTool
    /\ call.failure = "backend_error"
    /\ Len(call.result.requests) = 1
    /\ call.result.checks = 1
    /\ call.result.blocks = <<TextContent("Error: ", "backend_error")>>

\* The fields a schema lists as required, the base fields excepted
schema_required(schema) ==
    (IF "required" \in DOMAIN schema THEN schema.required ELSE {}) \ base_fields

well_typed(tool, arguments) ==
    \A k \in DOMAIN arguments \cap DOMAIN args_model_of(tool).fields :
        has_type(arguments[k], args_model_of(tool).fields[k])

\* C26: for every tool, arguments whose values have the types of their fields
\* are accepted by the args model exactly when every field the input schema
\* lists as required is among them.
C26_RequiredFieldsAgree ==
    (Invoked /\ well_typed(call.tool, call.arguments)) =>
        (call.accepted <=> schema_required(call.tool.input_schema) \subseteq DOMAIN call.arguments)

\* For the static tools the statement of C26 holds.
C26_StaticRequiredFieldsAgree ==
    (Invoked /\ ~is_generated(call.tool) /\ well_typed(call.tool, call.arguments)) =>
        (call.accepted <=> schema_required(call.tool.input_schema) \subseteq DOMAIN call.arguments)

\* C30: no segment of the path of a request is a placeholder, and a segment that
\* stems from a placeholder is the non-empty text the caller gave for it.
C30_PathFromCallerValues ==
    (Invoked /\ call.ran) =>
        \A n \in 1..Len(call.result.requests) :
            LET path == call.result.requests[n].path
            IN  \A i \in 1..Len(path) :
                    /\ ~is_placeholder(path[i].text)
                    /\ path[i].stems_from # Absent =>
                          /\ path[i].stems_from \in DOMAIN call.arguments
                          /\ call.arguments[path[i].stems_from].kind = "str"
                          /\ path[i].text = call.arguments[path[i].stems_from].text
                          /\ path[i].text # <<>>

\* No request has a placeholder left in its path.
C30_NoPlaceholderLeft ==
    (Invoked /\ call.ran) =>
        \A n \in 1..Len(call.result.requests) :
            \A i \in 1..Len(call.result.requests[n].path) :
                ~is_placeholder(call.result.requests[n].path[i].text)

(***************************************************************************)
(* The names list_tools shows and call_tool looks up                       *)
(* (stdio_server.list_tools, call_tool; config._apply_validated_configs)   *)
(***************************************************************************)

\* Three tools of the registry as the customization sees them
NamedRegistry ==
    << ConfigTool(ListIndexTool, [k \in {description} |-> Value(<<"original", ListIndexTool>>, 20)]),
       ConfigTool(IndexMappingTool, [k \in {description} |-> Value(<<"original", IndexMappingTool>>, 20)]),
       ConfigTool(CountTool, [k \in {description} |-> Value(<<"original", CountTool>>, 20)]) >>

\* Display names an administrator may give: a new name, and the ids of two tools
DisplayNames == {list_indices, ListIndexTool, IndexMappingTool}

MaxOverrides == 2

\* Validated overrides: (tool, 'name', display name)
NameOverrides ==
    SeqsUpTo({Triple(NamedRegistry[i].id, <<"n","a","m","e">>, Value(n, Len(n))) :
                 i \in 1..Len(NamedRegistry), n \in DisplayNames}, MaxOverrides)

\* An entry of enabled_tools with the display name the customization gave it
as_enabled(tool) ==
    [id |-> tool.id,
     display_name |-> IF display_name \in DOMAIN tool.fields
                      THEN tool.fields[display_name].text ELSE Absent]

\* list_tools(): name=tool_info.get('display_name', tool_name) for each enabled
\* tool, in the order of the dict
list_tools(tools) == [i \in 1..Len(tools) |-> Visible(tools[i])]

InitNames ==
    /\ pc = "names"
    /\ IdleFilter
    /\ enabled \in { [i \in 1..Len(NamedRegistry) |->
                        as_enabled(apply_validated_configs(
                            [registry |-> NamedRegistry, warnings |-> <<>>], o).registry[i])] :
                     o \in NameOverrides }
    /\ call = NoCall
    /\ sel = NoCall
    /\ vc = NoCall
    /\ cfg = NoCall

\* A client asks for the tools
ListTools ==
    /\ pc = "names"
    /\ call' = [phase |-> "listed", names |-> list_tools(enabled)]
    /\ pc' = "listed"
    /\ UNCHANGED <<varsFilter, sel, vc, cfg>>

\* The client calls the tool at one position of the list by the name it was given
CallListed ==
    /\ pc = "listed"
    /\ \E position \in 1..Len(call.names) :
          call' = [phase |-> "called", names |-> call.names, position |-> position,
                   name |-> call.names[position],
                   found_tool_key |-> find_tool(enabled, call.names[position])]
    /\ pc' = "called"
    /\ UNCHANGED <<varsFilter, sel, vc, cfg>>

SpecNames == InitNames /\ [][ListTools \/ CallListed]_vars

CalledByName == pc = "called" /\ call.phase = "called"

C29_DistinctNamesIdentifyTools ==
    (CalledByName /\ \A i, j \in 1..Len(call.names) : call.names[i] = call.names[j] => i = j) =>
        call.found_tool_key = call.position

(***************************************************************************)
(* Start-up and the first requests (stdio_server.serve,                    *)
(* streaming_server.create_mcp_server and serve)                           *)
(***************************************************************************)

\* A serve that starts the server right after generation and filters later
next_statement_run_early(transport, stage) ==
    CASE stage = "init" -> "generate_tools_from_openapi"
      [] stage = "generated" -> "run"
      [] stage = "serving" -> "get_tools"
      [] OTHER -> "none"

\* The statement serve comes to next. stdio: generate_tools_from_openapi,
\* apply_custom_tool_config, get_tools, server.run; streaming:
\* generate_tools_from_openapi, get_tools, return server, server.serve
next_statement(transport, stage) ==
    CASE stage = "init" -> "generate_tools_from_openapi"
      [] stage = "generated" ->
            IF transport = "stdio" THEN "apply_custom_tool_config" ELSE "get_tools"
      [] stage = "customized" -> "get_tools"
      [] stage = "filtered" -> "run"
      [] OTHER -> "none"

MaxAccepted == 2

InitServe ==
    /\ pc = "init"
    /\ TOOL_REGISTRY = StaticRegistry
    /\ generated = <<>>
    /\ spec_docs = <<>>
    /\ mode = "single"
    /\ config = NoFile
    /\ env = NoEnv
    /\ serverless = FALSE
    /\ version = <<0, 0, 0>>
    /\ registry0 = <<>>
    /\ after_write = <<>>
    /\ from_regex = <<>>
    /\ write_step = "not_reached"
    /\ filter_raised = FALSE
    /\ compat_calls = 0
    /\ backend_calls = 0
    /\ warnings = {}
    /\ enabled = <<>>
    /\ call \in {[phase |-> "serve", transport |-> t, accepted |-> 0, answer |-> Absent] :
                    t \in {"stdio", "streaming"}}
    /\ sel = NoCall
    /\ vc = NoCall
    /\ cfg = NoCall

\* await generate_tools_from_openapi()
ServeGenerate ==
    /\ call.phase = "serve"
    /\ next_statement(call.transport, pc) = "generate_tools_from_openapi"
    /\ GenerateToolsFromOpenapi

\* customized_registry = apply_custom_tool_config(TOOL_REGISTRY, ...): a deep copy
\* with the display names of the overrides; TOOL_REGISTRY is left as it is
ServeCustomize ==
    /\ call.phase = "serve"
    /\ next_statement(call.transport, pc) = "apply_custom_tool_config"
    /\ \E given \in {Absent, list_indices} :
          cfg' = [phase |-> "customized",
                  custom_registry |-> [i \in 1..Len(TOOL_REGISTRY) |->
                      [id |-> TOOL_REGISTRY[i].id,
                       display_name |-> IF TOOL_REGISTRY[i].id = ListIndexTool
                                        THEN given ELSE Absent]]]
    /\ pc' = "customized"
    /\ UNCHANGED <<varsFilter, call, sel, vc>>

\* stdio: get_tools(tool_registry=..., mode=..., config_file_path=...) names
\* parameters that get_tools(mode, config) does not have: TypeError, serve ends
ServeGetToolsStdio ==
    /\ call.phase = "serve"
    /\ call.transport = "stdio"
    /\ next_statement(call.transport, pc) = "get_tools"
    /\ pc' = "start_failed"
    /\ UNCHANGED <<varsFilter, call, sel, vc, cfg>>

\* streaming: enabled_tools = get_tools(mode, config)
ServeGetTools ==
    /\ call.phase = "serve"
    /\ call.transport = "streaming"
    /\ next_statement(call.transport, pc) = "get_tools"
    /\ \E m \in {"single", "multi"}, e \in {NoEnv, BusyEnv}, s \in BOOLEAN :
          GetToolsEffect(m, NoFile, e, s, <<2, 5, 1>>)

\* server.run(...) / uvicorn's server.serve(): requests are read from here on
ServeRun ==
    /\ call.phase = "serve"
    /\ next_statement(call.transport, pc) = "run"
    /\ pc' = "serving"
    /\ UNCHANGED <<varsFilter, call, sel, vc, cfg>>

\* A listTools request is accepted and answered: streaming names the tools by key
ServeListTools ==
    /\ pc = "serving"
    /\ call.accepted < MaxAccepted
    /\ call' = [call EXCEPT !.accepted = @ + 1, !.answer = keys(enabled)]
    /\ UNCHANGED <<pc, varsFilter, sel, vc, cfg>>

\* A callTool request is accepted: tool = enabled_tools.get(name)
ServeCallTool ==
    /\ pc = "serving"
    /\ call.accepted < MaxAccepted
    /\ \E name \in Range(keys(StaticRegistry)) \union {MsearchTool, ClusterHealthTool} :
          call' = [call EXCEPT !.accepted = @ + 1,
                               !.answer = IF has_key(enabled, name) THEN <<name>> ELSE <<>>]
    /\ UNCHANGED <<pc, varsFilter, sel, vc, cfg>>

NextServe ==
    \/ ServeGenerate
    \/ ServeCustomize
    \/ ServeGetToolsStdio
    \/ ServeGetTools
    \/ ServeRun
    \/ ServeListTools
    \/ ServeCallTool

SpecServe == InitServe /\ [][NextServe]_vars

\* C24: a step that inserts generated tools happens before the filter stage has
\* started; a step of the filter stage happens after generation has finished
\* and before any request is accepted; a request is accepted only after the
\* generation stage and the filter stage (and, for stdio, the override stage)
\* have finished; once a request has been accepted the registry and the enabled
\* tools stay as they are.
C24_StartupOrdered ==
    [][ /\ (generated' # generated \/ spec_docs' # spec_docs) =>
              (pc = "init" /\ registry0 = <<>> /\ call.accepted = 0)
        /\ (registry0' # registry0 \/ enabled' # enabled) =>
              (pc = "generated" \/ pc = "customized") /\ spec_docs # <<>> /\ call.accepted = 0
        /\ call'.accepted # call.accepted =>
              /\ spec_docs # <<>> /\ registry0 # <<>>
              /\ call.transport = "stdio" => cfg.phase = "customized"
              /\ TOOL_REGISTRY' = TOOL_REGISTRY /\ enabled' = enabled
        /\ call.accepted > 0 => (TOOL_REGISTRY' = TOOL_REGISTRY /\ enabled' = enabled)
      ]_vars

\* C24 witness: a streaming server in single mode that generated tools, filtered
\* them and has answered a request
C24_Witness ==
    /\ pc = "serving"
    /\ call.phase = "serve" /\ call.accepted > 0
    /\ mode = "single"
    /\ generated # <<>>
    /\ registry0 # <<>>
    /\ TOOL_REGISTRY # registry0

(***************************************************************************)
(* Requests in flight at the same time (stdio_server.list_tools,           *)
(* call_tool; tool_generator.tool_func; tools.check_tool_compatibility)    *)
(***************************************************************************)

\* A select_endpoint that sorts the list it was given (endpoints.sort(...))
endpoints_sorted_in_place(endpoints, params) == sorted_endpoints(endpoints, valid_params(params))

\* The list tool_func captured, after select_endpoint(endpoints, params_dict):
\* sorted(...) builds a new list and the list given is only read
endpoints_after_select(endpoints, params) == endpoints

MaxInFlight == 2

MaxRequests == 3

\* The generated tools with the endpoint lists their functions captured
GeneratedServed == {ClusterHealthTool, ExplainTool}

\* enabled_tools at the time serving begins: with and without a display name
ServedChoices ==
    { << [id |-> ListIndexTool, display_name |-> d],
         [id |-> ClusterHealthTool, display_name |-> Absent],
         [id |-> ExplainTool, display_name |-> Absent] >> : d \in {Absent, list_indices} }

InitConcurrent ==
    /\ pc = "concurrent"
    /\ TOOL_REGISTRY = FullRegistry
    /\ generated = <<>>
    /\ spec_docs = <<>>
    /\ mode = "single"
    /\ config = NoFile
    /\ env = NoEnv
    /\ serverless = FALSE
    /\ version = <<0, 0, 0>>
    /\ registry0 = <<>>
    /\ after_write = <<>>
    /\ from_regex = <<>>
    /\ write_step = "not_reached"
    /\ filter_raised = FALSE
    /\ compat_calls = 0
    /\ backend_calls = 0
    /\ warnings = {}
    /\ enabled \in ServedChoices
    /\ call = [phase |-> "concurrent", accepted |-> 0,
               endpoints |-> [id \in GeneratedServed |-> captured_endpoints(id)],
               running |-> <<>>, finished |-> 0, listings |-> <<>>]
    /\ sel = NoCall
    /\ vc = NoCall
    /\ cfg = NoCall

\* list_tools(): it has no await and runs from start to end
ListToolsRequest ==
    /\ pc = "concurrent"
    /\ call.accepted < MaxRequests
    /\ call' = [call EXCEPT !.accepted = @ + 1, !.listings = Append(@, list_tools(enabled))]
    /\ UNCHANGED <<pc, varsFilter, sel, vc, cfg>>

\* call_tool(name, arguments) up to tool['function'](parsed): the tool is looked
\* up by its visible name; a name of no tool raises ValueError
CallToolRequest ==
    /\ pc = "concurrent"
    /\ call.accepted < MaxRequests
    /\ Len(call.running) < MaxInFlight
    /\ \E name \in {list_indices, ListIndexTool, ClusterHealthTool, ExplainTool}, given \in {NoneValue, <<"l", "o", "g", "s">>} :
          \E found_tool_key \in {find_tool(enabled, name)} :
              call' = [call EXCEPT
                         !.accepted = @ + 1,
                         !.running = IF found_tool_key = 0 THEN @
                                     ELSE Append(@, [tool |-> enabled[found_tool_key].id,
                                                     params |-> [k \in {index} |-> given],
                                                     step |-> "parsed",
                                                     path |-> <<>>])]
    /\ UNCHANGED <<pc, varsFilter, sel, vc, cfg>>

without(q, i) == SubSeq(q, 1, i - 1) \o SubSeq(q, i + 1, Len(q))

\* initialize_client and check_tool_compatibility, which reads
\* TOOL_REGISTRY[tool_name]; a static tool goes on to its request
CheckStep ==
    /\ pc = "concurrent"
    /\ \E i \in 1..Len(call.running) :
          /\ call.running[i].step = "parsed"
          /\ call' = [call EXCEPT
                        !.running = IF ~has_key(TOOL_REGISTRY, call.running[i].tool)
                                    THEN without(@, i)
                                    ELSE [@ EXCEPT ![i].step =
                                            IF call.running[i].tool \in GeneratedServed
                                            THEN "checked" ELSE "selected"]]
    /\ UNCHANGED <<pc, varsFilter, sel, vc, cfg>>

\* selected_endpoint = select_endpoint(endpoints, params_dict) on the captured list
SelectStep ==
    /\ pc = "concurrent"
    /\ \E i \in 1..Len(call.running) :
          /\ call.running[i].step = "checked"
          /\ LET id == call.running[i].tool
                 params == call.running[i].params
             IN  call' = [call EXCEPT
                            !.running[i].step = "selected",
                            !.running[i].path = select_endpoint(call.endpoints[id], params).path,
                            !.endpoints[id] = endpoints_after_select(@, params)]
    /\ UNCHANGED <<pc, varsFilter, sel, vc, cfg>>

\* The request is sent and the handler returns
RequestStep ==
    /\ pc = "concurrent"
    /\ \E i \in 1..Len(call.running) :
          /\ call.running[i].step = "selected"
          /\ call' = [call EXCEPT !.running = without(@, i), !.finished = @ + 1]
    /\ UNCHANGED <<pc, varsFilter, sel, vc, cfg>>

NextConcurrent ==
    \/ ListToolsRequest
    \/ CallToolRequest
    \/ CheckStep
    \/ SelectStep
    \/ RequestStep

SpecConcurrent == InitConcurrent /\ [][NextConcurrent]_vars

\* C25: while requests are served, in whatever order their steps are taken, no
\* step changes the enabled tools, the registry or the endpoint list a generated
\* tool captured, and every answer to listTools has the enabled tools in their
\* order, each under its display name if it has one and under its id otherwise.
C25_ServingReadsOnly ==
    [][ /\ enabled' = enabled
        /\ TOOL_REGISTRY' = TOOL_REGISTRY
        /\ call'.endpoints = call.endpoints
        /\ \A n \in 1..Len(call'.listings) :
              /\ call'.listings[n] = call'.listings[1]
              /\ Len(call'.listings[n]) = Len(enabled)
              /\ \A i \in 1..Len(enabled) :
                    call'.listings[n][i] = IF enabled[i].display_name # Absent
                                           THEN enabled[i].display_name ELSE enabled[i].id
      ]_vars

\* C25 witness: two calls of the same generated tool are in flight, one has
\* selected the endpoint with the index, the other has not selected yet, and a
\* listing has been given
C25_Witness ==
    /\ pc = "concurrent"
    /\ Len(call.running) = 2
    /\ call.running[1].tool = ClusterHealthTool /\ call.running[2].tool = ClusterHealthTool
    /\ call.running[2].step = "selected" /\ Len(call.running[2].path) = 3
    /\ call.running[1].step = "checked"
    /\ Len(call.listings) = 1
    /\ call.endpoints[ClusterHealthTool] = captured_endpoints(ClusterHealthTool)

====
